---- MODULE Spec2Model ----
(***************************************************************************)
(* Change tracking and git-like history for entity graphs                  *)
(* (abstractions.ecs.entity, abstractions.change_tracking).                *)
(*                                                                         *)
(* The program is single threaded: every public call runs to completion,   *)
(* including the observers it notifies and the commits those trigger.      *)
(* Each call is therefore one action.  The methods are written as          *)
(* operators over a "world" record w that holds every field of every       *)
(* object; an action applies one method to the current world.              *)
(*                                                                         *)
(* Object references.  A live EntityTree holds references to Entity        *)
(* objects (names in Entities); several trees and the caller may share     *)
(* one entity.  deepcopy produces private objects nobody else refers to;   *)
(* a private entity is written as the record of its fields.  EntityData    *)
(* reads .data through either kind of reference.                           *)
(***************************************************************************)
EXTENDS Integers, Sequences, FiniteSets, TLC

None == "None"
NoIndex == << >>      \* None where a container index is expected

\* ---- bounds of the model -------------------------------------------------
MaxSteps == 4         \* calls made by the clients
MaxCommits == 3       \* commits stored by one history manager
MaxCalls == 3         \* notify calls received by one observer
MaxClock == 2         \* readings of the wall clock above the first

\* ---- the objects the callers create ---------------------------------------
Trees == {"t1", "t2", "t3"}
RootIds == {"r1", "r2"}
LineageIds == {"l1", "l2"}
\* EntityTree(root_ecs_id=..., lineage_id=...): t1 and t3 share a root id,
\* t1 and t2 share a lineage id.
root_ecs_id(t) == IF t = "t2" THEN "r2" ELSE "r1"
lineage_id(t) == IF t = "t3" THEN "l2" ELSE "l1"

Entities == {"e1", "e2", "e3"}
NodeIds == {"r1", "n2"}
\* Entity.ecs_id: e1 is the root entity of r1; e2 and e3 carry the same id.
ecs_id(e) == IF e = "e1" THEN "r1" ELSE "n2"

ComponentNames == {"health"}
ComponentValues == {1, 2}

Observers == {"obs", "rec"}     \* a TreeChangeObserver and a plain recorder
BranchNames == {"main", "dev"}
UnknownCommit == "unknown"      \* a commit id no commit_tree ever returned

Range(s) == {s[i] : i \in DOMAIN s}

\* EntityEdge(source_id, target_id, edge_type, field_name, ...)
EntityEdge(s, t, ty) ==
    [source_id |-> s, target_id |-> t, edge_type |-> ty, field_name |-> "f",
     container_index |-> NoIndex, container_key |-> None]
EdgeInputs ==
    {EntityEdge("r1", "n2", "composition"), EntityEdge("r1", "n2", "association"),
     EntityEdge("n2", "r1", "composition")}
EdgeKeys == {<<e.source_id, e.target_id>> : e \in EdgeInputs}

\* ---- events (events.py) ---------------------------------------------------
\* TreeEvent.__init__ sets tree_id = None; the dataclass fields follow.
NodeAddedEvent(id) == [type |-> "NodeAdded", tree_id |-> None, entity_id |-> id]
NodeRemovedEvent(id) == [type |-> "NodeRemoved", tree_id |-> None, entity_id |-> id]
EdgeAddedEvent(k, e) == [type |-> "EdgeAdded", tree_id |-> None, edge_key |-> k, edge |-> e]
EdgeRemovedEvent(k, e) == [type |-> "EdgeRemoved", tree_id |-> None, edge_key |-> k, edge |-> e]
ComponentAddedEvent(id, n, v) ==
    [type |-> "ComponentAdded", tree_id |-> None, entity_id |-> id,
     component_name |-> n, component_value |-> v]
ComponentRemovedEvent(id, n, v) ==
    [type |-> "ComponentRemoved", tree_id |-> None, entity_id |-> id,
     component_name |-> n, component_value |-> v]
ComponentModifiedEvent(id, n, old, new) ==
    [type |-> "ComponentModified", tree_id |-> None, entity_id |-> id,
     component_name |-> n, old_value |-> old, new_value |-> new]

\* ---- state ----------------------------------------------------------------
VARIABLES
    nodes,            \* EntityTree.nodes: tree -> [ecs id -> entity reference]
    edges,            \* EntityTree.edges: tree -> [(source, target) -> EntityEdge]
    observers,        \* EntityTree.observers: tree -> sequence of observers
    data,             \* Entity.data: entity -> [component name -> value]
    tree_ref,         \* Entity.tree_ref: entity -> tree or None
    auto_commit,      \* TreeChangeObserver.auto_commit
    pending_events,   \* TreeChangeObserver.pending_events: root id -> events
    current_trees,    \* TreeChangeObserver.current_trees: root id -> tree or None
    commits,          \* TreeHistoryManager.commits: the snapshots, in insertion order
    branches,         \* TreeHistoryManager.branches: name -> commit id or None
    root_commits,     \* TreeHistoryManager.root_commits: root id -> set of ids
    heads,            \* TreeHistoryManager.heads: root id -> commit id or None
    lineage_commits,  \* TreeHistoryManager.lineage_commits
    calls,            \* per observer: the events its notify was called with
    steps,            \* number of calls made so far
    clock,            \* what datetime.now() returns when it is called next
    default_tree,     \* the module global _default_tree: a graph or None
    made_trees,       \* the graphs get_default_tree has created, in order
    traversal         \* the locals of a running get_common_ancestor call

vars == <<nodes, edges, observers, data, tree_ref, auto_commit, pending_events,
          current_trees, commits, branches, root_commits, heads,
          lineage_commits, calls, steps, clock, default_tree, made_trees,
          traversal>>

World ==
    [nodes |-> nodes, edges |-> edges, observers |-> observers, data |-> data,
     tree_ref |-> tree_ref, auto_commit |-> auto_commit,
     pending_events |-> pending_events, current_trees |-> current_trees,
     commits |-> commits, branches |-> branches, root_commits |-> root_commits,
     heads |-> heads, lineage_commits |-> lineage_commits, calls |-> calls,
     clock |-> clock, default_tree |-> default_tree, made_trees |-> made_trees]

\* a method's outcome: the world it leaves and the value it returns
Out(w, v) == [w |-> w, val |-> v]

Empty == << >>        \* the empty dict / list

\* dict helpers: a dict is a function on the set of its keys
DictSet(d, k, v) == [x \in (DOMAIN d) \cup {k} |-> IF x = k THEN v ELSE d[x]]
DictPop(d, k) == [x \in (DOMAIN d) \ {k} |-> d[x]]

\* ---- TreeSnapshot and deepcopy (observer.py 47-60) ------------------------
\* a reference to a live (shareable) entity object
Ref(e) == [obj |-> e]
IsShared(x) == "obj" \in DOMAIN x
\* reading .data and .ecs_id through an entity reference
EntityData(w, x) == IF IsShared(x) THEN w.data[x.obj] ELSE x.data
EntityId(x) == IF IsShared(x) THEN ecs_id(x.obj) ELSE x.ecs_id

\* a copy that keeps the reference to the live entity (copy.copy of the tree)
shallow_copy_entity(w, x) == x

\* deepcopy of one entity: a private object with the same field values
deepcopy_entity(w, x) == [ecs_id |-> EntityId(x), data |-> EntityData(w, x)]

\* deepcopy(tree): private copies of the node dict, its entities, the edges
deepcopy(w, t) ==
    [root_ecs_id |-> root_ecs_id(t), lineage_id |-> lineage_id(t),
     nodes |-> [id \in DOMAIN w.nodes[t] |-> deepcopy_entity(w, w.nodes[t][id])],
     edges |-> w.edges[t]]

\* the commits dict: keys, lookup, and assignment to a key (a new key goes last)
CommitKeys(w) == {w.commits[i].commit_id : i \in DOMAIN w.commits}
CommitIndex(w, commit_id) == CHOOSE i \in DOMAIN w.commits : w.commits[i].commit_id = commit_id
Snapshot(w, commit_id) == w.commits[CommitIndex(w, commit_id)]
StoreCommit(w, snapshot) ==
    IF snapshot.commit_id \in CommitKeys(w)
    THEN [w.commits EXCEPT ![CommitIndex(w, snapshot.commit_id)] = snapshot]
    ELSE Append(w.commits, snapshot)

\* str(uuid4()): an id different from every id handed out before
uuid4(w) == "c" \o ToString(Len(w.commits) + 1)

TreeSnapshot(w, t, parent_commits) ==
    [tree |-> deepcopy(w, t),
     commit_id |-> uuid4(w),
     parent_commits |-> parent_commits,     \* "parent_commits or []"
     timestamp |-> w.clock,                 \* datetime.now(timezone.utc)
     events |-> Empty,
     message |-> ""]

\* ---- TreeHistoryManager (observer.py 63-238) ------------------------------
\* commit_tree that hands back the head instead of storing a snapshot equal to it
commit_tree_dedup(w, t, message, parent_commits, branch) ==
    LET snapshot == [TreeSnapshot(w, t, parent_commits) EXCEPT !.message = message]
        cid == snapshot.commit_id
        head == w.heads[root_ecs_id(t)]
    IN IF head /= None /\ Snapshot(w, head).tree = snapshot.tree
       THEN Out(w, head)
       ELSE Out([w EXCEPT !.commits = StoreCommit(w, snapshot),
                          !.branches[branch] = cid,
                          !.root_commits[root_ecs_id(t)] = @ \cup {cid},
                          !.heads[root_ecs_id(t)] = cid,
                          !.lineage_commits[lineage_id(t)] = @ \cup {cid}],
                cid)

\* commit_tree that moves the head but does not file the commit under the root
commit_tree_skips_root_index(w, t, message, parent_commits, branch) ==
    LET snapshot == [TreeSnapshot(w, t, parent_commits) EXCEPT !.message = message]
        cid == snapshot.commit_id
    IN Out([w EXCEPT !.commits = StoreCommit(w, snapshot),
                     !.branches[branch] = cid,
                     !.heads[root_ecs_id(t)] = cid,
                     !.lineage_commits[lineage_id(t)] = @ \cup {cid}],
           cid)

commit_tree(w, t, message, parent_commits, branch) ==
    LET snapshot == [TreeSnapshot(w, t, parent_commits) EXCEPT !.message = message]
        cid == snapshot.commit_id
    IN Out([w EXCEPT !.commits = StoreCommit(w, snapshot),
                     !.branches[branch] = cid,
                     !.root_commits[root_ecs_id(t)] = @ \cup {cid},
                     !.heads[root_ecs_id(t)] = cid,
                     !.lineage_commits[lineage_id(t)] = @ \cup {cid}],
           cid)

\* Optional results that are objects: << >> is None, <<x>> is x
get_commit(w, commit_id) ==
    IF commit_id \in CommitKeys(w) THEN <<Snapshot(w, commit_id)>> ELSE << >>

get_tree_at_commit(w, commit_id) ==
    LET snapshot == get_commit(w, commit_id)
    IN IF snapshot /= << >> THEN <<snapshot[1].tree>> ELSE << >>

get_commits_for_root(w, r) == w.root_commits[r]

\* create_branch without the test that from_commit is stored
create_branch_unchecked(w, branch_name, from_commit) ==
    IF w.branches[branch_name] /= None THEN Out(w, FALSE)
    ELSE Out([w EXCEPT !.branches[branch_name] = from_commit], TRUE)

\* create_branch without the test that the name is free
create_branch_overwrites(w, branch_name, from_commit) ==
    IF from_commit \notin CommitKeys(w) THEN Out(w, FALSE)
    ELSE Out([w EXCEPT !.branches[branch_name] = from_commit], TRUE)

create_branch(w, branch_name, from_commit) ==
    IF w.branches[branch_name] /= None THEN Out(w, FALSE)
    ELSE IF from_commit \notin CommitKeys(w) THEN Out(w, FALSE)
    ELSE Out([w EXCEPT !.branches[branch_name] = from_commit], TRUE)

\* _get_ancestors without the walk up the parents of the parents
get_ancestors_loop_one_level(w, ancestors, to_visit) ==
    LET first == IF to_visit = Empty THEN {} ELSE {to_visit[Len(to_visit)]}
        parents(c) == IF get_commit(w, c) /= << >>
                      THEN Range(get_commit(w, c)[1].parent_commits) ELSE {}
    IN ancestors \cup first \cup UNION {parents(c) : c \in first}

\* the loop of _get_ancestors: to_visit is a stack, popped at its end
RECURSIVE get_ancestors_loop(_, _, _)
get_ancestors_loop(w, ancestors, to_visit) ==
    IF to_visit = Empty THEN ancestors
    ELSE LET current == to_visit[Len(to_visit)]
             rest == SubSeq(to_visit, 1, Len(to_visit) - 1)
             snapshot == get_commit(w, current)
         IN IF current \in ancestors THEN get_ancestors_loop(w, ancestors, rest)
            ELSE get_ancestors_loop(w, ancestors \cup {current},
                     IF snapshot /= << >> THEN rest \o snapshot[1].parent_commits
                     ELSE rest)

get_ancestors(w, commit_id) == get_ancestors_loop(w, {}, <<commit_id>>)

\* One call of get_common_ancestor, statement by statement.  pc says where
\* the call is: in the first _get_ancestors, in the second one, or returned;
\* ancestors and to_visit are the locals of the running _get_ancestors, and
\* expanded lists the commits whose parents it has pushed so far.
Idle ==
    [pc |-> "idle", commit1 |-> None, commit2 |-> None, ancestors1 |-> {},
     ancestors |-> {}, to_visit |-> Empty, expanded |-> Empty, result |-> {}]

Running == {"ancestors1", "ancestors2"}

\* one turn of the while loop that pushes the parents of a commit it has
\* seen before again
get_ancestors_step_revisits(w, st) ==
    LET current == st.to_visit[Len(st.to_visit)]
        rest == SubSeq(st.to_visit, 1, Len(st.to_visit) - 1)
        snapshot == get_commit(w, current)
    IN [st EXCEPT !.ancestors = @ \cup {current},
                  !.to_visit = IF snapshot /= << >>
                               THEN rest \o snapshot[1].parent_commits ELSE rest,
                  !.expanded = IF snapshot /= << >> THEN Append(@, current) ELSE @]

\* one turn of the while loop of _get_ancestors
get_ancestors_step(w, st) ==
    LET current == st.to_visit[Len(st.to_visit)]
        rest == SubSeq(st.to_visit, 1, Len(st.to_visit) - 1)
        snapshot == get_commit(w, current)
    IN IF current \in st.ancestors THEN [st EXCEPT !.to_visit = rest]
       ELSE [st EXCEPT !.ancestors = @ \cup {current},
                       !.to_visit = IF snapshot /= << >>
                                    THEN rest \o snapshot[1].parent_commits ELSE rest,
                       !.expanded = IF snapshot /= << >> THEN Append(@, current) ELSE @]

\* the loop has ended: the first _get_ancestors returns into the second, the
\* second into the rest of get_common_ancestor
get_ancestors_return(st) ==
    IF st.pc = "ancestors1"
    THEN [st EXCEPT !.pc = "ancestors2", !.ancestors1 = st.ancestors,
                    !.ancestors = {}, !.to_visit = <<st.commit2>>, !.expanded = Empty]
    ELSE LET common == st.ancestors1 \cap st.ancestors
         IN [st EXCEPT !.pc = "done",
                       !.result = IF common = {} THEN {None} ELSE common]

\* get_common_ancestor returns next(iter(common)): the first element in the
\* iteration order of a set of strings, which string hashing fixes anew in
\* every process.  The operator gives the set of values a call can return.
get_common_ancestor(w, commit1, commit2) ==
    LET ancestors1 == get_ancestors(w, commit1)
        ancestors2 == get_ancestors(w, commit2)
        common == ancestors1 \cap ancestors2
    IN IF common = {} THEN {None} ELSE common

\* Optional[int] arguments: << >> is None, <<n>> is n
NoLimit == << >>

\* list.sort(key=timestamp, reverse=True): stable, so snapshots with equal
\* timestamps keep the order they had in the list
RECURSIVE sort_newest_first(_)
sort_newest_first(snapshots) ==
    IF snapshots = Empty THEN Empty
    ELSE LET n == Len(snapshots)
             sorted == sort_newest_first(SubSeq(snapshots, 1, n - 1))
             x == snapshots[n]
             before == SelectSeq(sorted, LAMBDA y : y.timestamp >= x.timestamp)
             after == SelectSeq(sorted, LAMBDA y : y.timestamp < x.timestamp)
         IN before \o <<x>> \o after

\* a slice bound beyond either end of a list stands for that end
Min(a, b) == IF a <= b THEN a ELSE b
Max(a, b) == IF a >= b THEN a ELSE b

\* the orders in which a Python set can be walked: every one
Orderings(S) == {s \in [1..Cardinality(S) -> S] : Range(s) = S}

\* get_commit_log.  With a root filter the ids come from a set, whose
\* iteration order is any; the operator gives the set of lists a call can
\* return.
get_commit_log(w, r, limit) ==
    LET commit_id_lists ==
            IF r /= None THEN Orderings(get_commits_for_root(w, r))
            ELSE {[i \in DOMAIN w.commits |-> w.commits[i].commit_id]}
        Log(commit_ids) ==
            LET stored == SelectSeq(commit_ids, LAMBDA cid : cid \in CommitKeys(w))
                snapshots == sort_newest_first([i \in DOMAIN stored |-> Snapshot(w, stored[i])])
            IN IF limit /= NoLimit /\ limit[1] /= 0
               THEN IF limit[1] > 0
                    THEN SubSeq(snapshots, 1, Min(limit[1], Len(snapshots)))
                    ELSE SubSeq(snapshots, 1, Max(Len(snapshots) + limit[1], 0))
               ELSE snapshots
    IN {Log(commit_ids) : commit_ids \in commit_id_lists}

\* ---- TreeChangeObserver (observer.py 241-323) -----------------------------
AutoCommitThreshold == 10

\* commit_current_state that leaves the pending events in the buffer
commit_current_state_keeps_buffer(w, r, message, branch) ==
    LET tree == w.current_trees[r]
    IN IF tree = None THEN Out(w, None)
       ELSE
         LET current_head == w.heads[r]
             parent_commits == IF current_head /= None THEN <<current_head>> ELSE Empty
             c == commit_tree(w, tree, message, parent_commits, branch)
             events == c.w.pending_events[r]
         IN Out([c.w EXCEPT !.commits[CommitIndex(c.w, c.val)].events = @ \o events],
                c.val)

\* commit_current_state that takes the head of the branch as the parent
commit_current_state_branch_parent(w, r, message, branch) ==
    LET tree == w.current_trees[r]
    IN IF tree = None THEN Out(w, None)
       ELSE
         LET current_head == w.branches[branch]
             parent_commits == IF current_head /= None THEN <<current_head>> ELSE Empty
             c == commit_tree(w, tree, message, parent_commits, branch)
             events == c.w.pending_events[r]
         IN Out([c.w EXCEPT !.commits[CommitIndex(c.w, c.val)].events = @ \o events,
                            !.pending_events[r] = Empty],
                c.val)

\* commit_current_state that empties the buffer before it looks for the tree
commit_current_state_drops_events(w, r, message, branch) ==
    LET tree == w.current_trees[r]
    IN IF tree = None THEN Out([w EXCEPT !.pending_events[r] = Empty], None)
       ELSE
         LET current_head == w.heads[r]
             parent_commits == IF current_head /= None THEN <<current_head>> ELSE Empty
             c == commit_tree(w, tree, message, parent_commits, branch)
             events == c.w.pending_events[r]
         IN Out([c.w EXCEPT !.commits[CommitIndex(c.w, c.val)].events = @ \o events,
                            !.pending_events[r] = Empty],
                c.val)

\* commit_current_state that empties the buffer of every root
commit_current_state_clears_all(w, r, message, branch) ==
    LET tree == w.current_trees[r]
    IN IF tree = None THEN Out(w, None)
       ELSE
         LET current_head == w.heads[r]
             parent_commits == IF current_head /= None THEN <<current_head>> ELSE Empty
             c == commit_tree(w, tree, message, parent_commits, branch)
             events == c.w.pending_events[r]
         IN Out([c.w EXCEPT !.commits[CommitIndex(c.w, c.val)].events = @ \o events,
                            !.pending_events = [x \in DOMAIN @ |-> Empty]],
                c.val)

commit_current_state(w, r, message, branch) ==
    LET tree == w.current_trees[r]
    IN IF tree = None THEN Out(w, None)
       ELSE
         LET current_head == w.heads[r]
             parent_commits == IF current_head /= None THEN <<current_head>> ELSE Empty
             c == commit_tree(w, tree, message, parent_commits, branch)
             events == c.w.pending_events[r]
         IN Out([c.w EXCEPT !.commits[CommitIndex(c.w, c.val)].events = @ \o events,
                            !.pending_events[r] = Empty],
                c.val)

\* _auto_commit_changes that fires only above the threshold
auto_commit_changes_off_by_one(w, tree_id) ==
    LET events == w.pending_events[tree_id]
    IN IF Len(events) > AutoCommitThreshold
       THEN commit_current_state(w, tree_id,
                "Auto-commit: " \o ToString(Len(events)) \o " changes", "main").w
       ELSE w

auto_commit_changes(w, tree_id) ==
    LET events == w.pending_events[tree_id]
    IN IF Len(events) >= AutoCommitThreshold
       THEN commit_current_state(w, tree_id,
                "Auto-commit: " \o ToString(Len(events)) \o " changes", "main").w
       ELSE w

notify(w, event) ==
    IF event.tree_id /= None
    THEN LET w1 == [w EXCEPT !.pending_events[event.tree_id] = Append(@, event)]
         IN IF w1.auto_commit THEN auto_commit_changes(w1, event.tree_id) ELSE w1
    ELSE w

\* register_tree that commits on every registration
register_tree_always_commits(w, t) ==
    LET w1 == [w EXCEPT !.current_trees[root_ecs_id(t)] = t]
    IN commit_current_state(w1, root_ecs_id(t), "Initial commit", "main").w

register_tree(w, t) ==
    LET w1 == [w EXCEPT !.current_trees[root_ecs_id(t)] = t]
    IN IF get_commits_for_root(w1, root_ecs_id(t)) = {}
       THEN commit_current_state(w1, root_ecs_id(t), "Initial commit", "main").w
       ELSE w1

\* observer.notify(event) for either kind of observer; the recorder only
\* keeps what it was given
observer_notify(w, ob, event) ==
    LET w1 == [w EXCEPT !.calls[ob] = Append(@, event)]
    IN IF ob = "obs" THEN notify(w1, event) ELSE w1

\* ---- EntityTree (entity.py 55-198) ----------------------------------------
\* add_observer without the membership test
add_observer_always(w, t, ob) == [w EXCEPT !.observers[t] = Append(@, ob)]

add_observer(w, t, ob) ==
    IF ob \notin Range(w.observers[t])
    THEN [w EXCEPT !.observers[t] = Append(@, ob)]
    ELSE w

remove_observer(w, t, ob) ==
    IF ob \in Range(w.observers[t])
    THEN [w EXCEPT !.observers[t] = SelectSeq(@, LAMBDA x : x /= ob)]
    ELSE w

RECURSIVE notify_each(_, _, _)
notify_each(w, obsList, event) ==
    IF obsList = Empty THEN w
    ELSE notify_each(observer_notify(w, Head(obsList), event), Tail(obsList), event)

\* _notify_observers that passes the event on as it got it
notify_observers_unstamped(w, t, event) == notify_each(w, w.observers[t], event)

\* EntityTree._notify_observers
notify_observers(w, t, event) ==
    notify_each(w, w.observers[t], [event EXCEPT !.tree_id = root_ecs_id(t)])

\* add_node that stores the entity whether or not the id is taken, and
\* notifies only for a new id
add_node_replaces(w, t, e) ==
    LET w1 == [w EXCEPT !.nodes[t] = DictSet(@, ecs_id(e), Ref(e))]
    IN IF ecs_id(e) \notin DOMAIN w.nodes[t]
       THEN Out(notify_observers(w1, t, NodeAddedEvent(ecs_id(e))), None)
       ELSE Out(w1, None)

add_node(w, t, e) ==
    IF ecs_id(e) \notin DOMAIN w.nodes[t]
    THEN Out(notify_observers([w EXCEPT !.nodes[t] = DictSet(@, ecs_id(e), Ref(e))],
                              t, NodeAddedEvent(ecs_id(e))), None)
    ELSE Out(w, None)

\* remove_node that takes the edges from and to the node with it
remove_node_with_edges(w, t, id) ==
    IF id \in DOMAIN w.nodes[t]
    THEN Out(notify_observers(
                 [w EXCEPT !.nodes[t] = DictPop(@, id),
                           !.edges[t] = [k \in {x \in DOMAIN @ : x[1] /= id /\ x[2] /= id}
                                            |-> @[k]]],
                 t, NodeRemovedEvent(id)), <<w.nodes[t][id]>>)
    ELSE Out(w, << >>)

remove_node(w, t, id) ==
    IF id \in DOMAIN w.nodes[t]
    THEN Out(notify_observers([w EXCEPT !.nodes[t] = DictPop(@, id)],
                              t, NodeRemovedEvent(id)), <<w.nodes[t][id]>>)
    ELSE Out(w, << >>)

\* add_edge that tells no observer
add_edge_silent(w, t, edge) ==
    LET edge_key == <<edge.source_id, edge.target_id>>
    IN IF edge_key \notin DOMAIN w.edges[t]
       THEN Out([w EXCEPT !.edges[t] = DictSet(@, edge_key, edge)], None)
       ELSE Out(w, None)

add_edge(w, t, edge) ==
    LET edge_key == <<edge.source_id, edge.target_id>>
    IN IF edge_key \notin DOMAIN w.edges[t]
       THEN Out(notify_observers([w EXCEPT !.edges[t] = DictSet(@, edge_key, edge)],
                                 t, EdgeAddedEvent(edge_key, edge)), None)
       ELSE Out(w, None)

remove_edge(w, t, source_id, target_id) ==
    LET edge_key == <<source_id, target_id>>
    IN IF edge_key \in DOMAIN w.edges[t]
       THEN Out(notify_observers([w EXCEPT !.edges[t] = DictPop(@, edge_key)],
                                 t, EdgeRemovedEvent(edge_key, w.edges[t][edge_key])),
                <<w.edges[t][edge_key]>>)
       ELSE Out(w, << >>)

\* ---- Entity (entity.py 201-294) -------------------------------------------
set_tree_reference(w, e, t) == [w EXCEPT !.tree_ref[e] = t]

\* Entity._notify_component_added / _removed / _modified
\* component notification that, for an entity without tree_ref, goes to a
\* graph that holds the entity as a node
notify_component_via_nodes(w, e, event) ==
    LET holders == {t \in Trees : /\ ecs_id(e) \in DOMAIN w.nodes[t]
                                  /\ w.nodes[t][ecs_id(e)] = Ref(e)}
    IN IF w.tree_ref[e] /= None THEN notify_observers(w, w.tree_ref[e], event)
       ELSE IF holders /= {} THEN notify_observers(w, CHOOSE t \in holders : TRUE, event)
       ELSE w

notify_component(w, e, event) ==
    IF w.tree_ref[e] /= None THEN notify_observers(w, w.tree_ref[e], event) ELSE w

\* add_component written as an assignment: it replaces a value that is there
add_component_replaces(w, e, name, value) ==
    Out(notify_component([w EXCEPT !.data[e] = DictSet(@, name, value)],
                         e, ComponentAddedEvent(ecs_id(e), name, value)), None)

add_component(w, e, name, value) ==
    IF name \notin DOMAIN w.data[e]
    THEN Out(notify_component([w EXCEPT !.data[e] = DictSet(@, name, value)],
                              e, ComponentAddedEvent(ecs_id(e), name, value)), None)
    ELSE Out(w, None)

\* remove_component written with data.pop(name, None): it notifies also when
\* there was nothing to remove
remove_component_always_notifies(w, e, name) ==
    IF name \in DOMAIN w.data[e]
    THEN Out(notify_component([w EXCEPT !.data[e] = DictPop(@, name)],
                              e, ComponentRemovedEvent(ecs_id(e), name, w.data[e][name])),
             <<w.data[e][name]>>)
    ELSE Out(notify_component(w, e, ComponentRemovedEvent(ecs_id(e), name, None)), << >>)

remove_component(w, e, name) ==
    IF name \in DOMAIN w.data[e]
    THEN Out(notify_component([w EXCEPT !.data[e] = DictPop(@, name)],
                              e, ComponentRemovedEvent(ecs_id(e), name, w.data[e][name])),
             <<w.data[e][name]>>)
    ELSE Out(w, << >>)

\* update_component that passes the new value as old_value and the old as new
update_component_swaps_values(w, e, name, value) ==
    IF name \in DOMAIN w.data[e]
    THEN Out(notify_component([w EXCEPT !.data[e][name] = value],
                              e, ComponentModifiedEvent(ecs_id(e), name, value, w.data[e][name])),
             None)
    ELSE add_component(w, e, name, value)

update_component(w, e, name, value) ==
    IF name \in DOMAIN w.data[e]
    THEN Out(notify_component([w EXCEPT !.data[e][name] = value],
                              e, ComponentModifiedEvent(ecs_id(e), name, w.data[e][name], value)),
             None)
    ELSE add_component(w, e, name, value)

\* ---- TreeChangeAnalyzer (analyzer.py) -------------------------------------
\* iteration over a Python set: some fixed order
RECURSIVE SetToSeq(_)
SetToSeq(S) ==
    IF S = {} THEN Empty
    ELSE LET x == CHOOSE y \in S : TRUE IN <<x>> \o SetToSeq(S \ {x})

RECURSIVE Concat(_)
Concat(ss) == IF ss = Empty THEN Empty ELSE Head(ss) \o Concat(Tail(ss))

\* the two loops of _analyze_node_changes, walking the added and the removed
\* ids in the given orders
analyze_node_changes_walk(w, old_tree, new_tree, added_nodes, removed_nodes) ==
    LET Added(node_id) ==
            [change_type |-> "node_added", entity_id |-> node_id,
             new_value |-> new_tree.nodes[node_id],
             details |-> [components |-> DOMAIN EntityData(w, new_tree.nodes[node_id])]]
        Removed(node_id) ==
            [change_type |-> "node_removed", entity_id |-> node_id,
             old_value |-> old_tree.nodes[node_id],
             details |-> [components |-> DOMAIN EntityData(w, old_tree.nodes[node_id])]]
    IN [i \in DOMAIN added_nodes |-> Added(added_nodes[i])]
       \o [i \in DOMAIN removed_nodes |-> Removed(removed_nodes[i])]

\* _analyze_node_changes with added_nodes = new_nodes, the "- old_nodes" lost
analyze_node_changes_all_new(w, old_tree, new_tree) ==
    LET old_nodes == DOMAIN old_tree.nodes
        new_nodes == DOMAIN new_tree.nodes
    IN analyze_node_changes_walk(w, old_tree, new_tree,
                                 SetToSeq(new_nodes), SetToSeq(old_nodes \ new_nodes))

\* _analyze_node_changes without the loop over the removed nodes
analyze_node_changes_added_only(w, old_tree, new_tree) ==
    LET old_nodes == DOMAIN old_tree.nodes
        new_nodes == DOMAIN new_tree.nodes
    IN analyze_node_changes_walk(w, old_tree, new_tree,
                                 SetToSeq(new_nodes \ old_nodes), Empty)

analyze_node_changes(w, old_tree, new_tree) ==
    LET old_nodes == DOMAIN old_tree.nodes
        new_nodes == DOMAIN new_tree.nodes
    IN analyze_node_changes_walk(w, old_tree, new_tree,
                                 SetToSeq(new_nodes \ old_nodes),
                                 SetToSeq(old_nodes \ new_nodes))

\* _edges_differ that compares the edge objects by identity: an edge and its
\* deep copy are never the same object
edges_differ_by_identity(edge1, edge2) == TRUE

edges_differ(edge1, edge2) ==
    \/ edge1.edge_type /= edge2.edge_type
    \/ edge1.field_name /= edge2.field_name
    \/ edge1.container_index /= edge2.container_index
    \/ edge1.container_key /= edge2.container_key

EdgeFields == {"edge_type", "field_name", "container_index", "container_key"}

\* _get_edge_differences that reports every field, differing or not
get_edge_differences_every_field(old_edge, new_edge) ==
    [f \in EdgeFields |-> [old |-> old_edge[f], new |-> new_edge[f]]]

get_edge_differences(old_edge, new_edge) ==
    [f \in {g \in EdgeFields : old_edge[g] /= new_edge[g]} |->
        [old |-> old_edge[f], new |-> new_edge[f]]]

analyze_edge_changes(old_tree, new_tree) ==
    LET old_edges == DOMAIN old_tree.edges
        new_edges == DOMAIN new_tree.edges
        EdgeDetails(edge) ==
            [source_id |-> edge.source_id, target_id |-> edge.target_id,
             edge_type |-> edge.edge_type, field_name |-> edge.field_name]
        Added(edge_key) ==
            [change_type |-> "edge_added", edge_key |-> edge_key,
             new_value |-> new_tree.edges[edge_key],
             details |-> EdgeDetails(new_tree.edges[edge_key])]
        Removed(edge_key) ==
            [change_type |-> "edge_removed", edge_key |-> edge_key,
             old_value |-> old_tree.edges[edge_key],
             details |-> EdgeDetails(old_tree.edges[edge_key])]
        Modified(edge_key) ==
            [change_type |-> "edge_modified", edge_key |-> edge_key,
             old_value |-> old_tree.edges[edge_key],
             new_value |-> new_tree.edges[edge_key],
             details |-> get_edge_differences(old_tree.edges[edge_key],
                                              new_tree.edges[edge_key])]
        differing == {k \in old_edges \cap new_edges :
                         edges_differ(old_tree.edges[k], new_tree.edges[k])}
    IN (LET s == SetToSeq(new_edges \ old_edges) IN [i \in DOMAIN s |-> Added(s[i])])
       \o (LET s == SetToSeq(old_edges \ new_edges) IN [i \in DOMAIN s |-> Removed(s[i])])
       \o (LET s == SetToSeq(differing) IN [i \in DOMAIN s |-> Modified(s[i])])

\* _analyze_component_changes that walks every node of the new tree, an added
\* node counting as one that had no components
analyze_component_changes_all_nodes(w, old_tree, new_tree) ==
    LET ForNode(node_id) ==
            LET old_data == IF node_id \in DOMAIN old_tree.nodes
                            THEN EntityData(w, old_tree.nodes[node_id]) ELSE Empty
                new_data == EntityData(w, new_tree.nodes[node_id])
                old_components == DOMAIN old_data
                new_components == DOMAIN new_data
                Added(n) ==
                    [change_type |-> "component_added", entity_id |-> node_id,
                     component_name |-> n, new_value |-> new_data[n]]
                Removed(n) ==
                    [change_type |-> "component_removed", entity_id |-> node_id,
                     component_name |-> n, old_value |-> old_data[n]]
                Modified(n) ==
                    [change_type |-> "component_modified", entity_id |-> node_id,
                     component_name |-> n, old_value |-> old_data[n],
                     new_value |-> new_data[n]]
                changed == {n \in old_components \cap new_components :
                               old_data[n] /= new_data[n]}
            IN (LET s == SetToSeq(new_components \ old_components) IN [i \in DOMAIN s |-> Added(s[i])])
               \o (LET s == SetToSeq(old_components \ new_components) IN [i \in DOMAIN s |-> Removed(s[i])])
               \o (LET s == SetToSeq(changed) IN [i \in DOMAIN s |-> Modified(s[i])])
    IN Concat((LET s == SetToSeq(DOMAIN new_tree.nodes) IN [i \in DOMAIN s |-> ForNode(s[i])]))

\* _analyze_component_changes that takes every component of both entities for
\* a modified one, equal values or not
analyze_component_changes_any_value(w, old_tree, new_tree) ==
    LET common_nodes == DOMAIN old_tree.nodes \cap DOMAIN new_tree.nodes
        ForNode(node_id) ==
            LET old_data == EntityData(w, old_tree.nodes[node_id])
                new_data == EntityData(w, new_tree.nodes[node_id])
                Added(n) ==
                    [change_type |-> "component_added", entity_id |-> node_id,
                     component_name |-> n, new_value |-> new_data[n]]
                Removed(n) ==
                    [change_type |-> "component_removed", entity_id |-> node_id,
                     component_name |-> n, old_value |-> old_data[n]]
                Modified(n) ==
                    [change_type |-> "component_modified", entity_id |-> node_id,
                     component_name |-> n, old_value |-> old_data[n],
                     new_value |-> new_data[n]]
            IN (LET s == SetToSeq(DOMAIN new_data \ DOMAIN old_data) IN [i \in DOMAIN s |-> Added(s[i])])
               \o (LET s == SetToSeq(DOMAIN old_data \ DOMAIN new_data) IN [i \in DOMAIN s |-> Removed(s[i])])
               \o (LET s == SetToSeq(DOMAIN old_data \cap DOMAIN new_data) IN [i \in DOMAIN s |-> Modified(s[i])])
    IN Concat((LET s == SetToSeq(common_nodes) IN [i \in DOMAIN s |-> ForNode(s[i])]))

analyze_component_changes(w, old_tree, new_tree) ==
    LET common_nodes == DOMAIN old_tree.nodes \cap DOMAIN new_tree.nodes
        ForNode(node_id) ==
            LET old_data == EntityData(w, old_tree.nodes[node_id])
                new_data == EntityData(w, new_tree.nodes[node_id])
                old_components == DOMAIN old_data
                new_components == DOMAIN new_data
                Added(n) ==
                    [change_type |-> "component_added", entity_id |-> node_id,
                     component_name |-> n, new_value |-> new_data[n]]
                Removed(n) ==
                    [change_type |-> "component_removed", entity_id |-> node_id,
                     component_name |-> n, old_value |-> old_data[n]]
                Modified(n) ==
                    [change_type |-> "component_modified", entity_id |-> node_id,
                     component_name |-> n, old_value |-> old_data[n],
                     new_value |-> new_data[n]]
                changed == {n \in old_components \cap new_components :
                               old_data[n] /= new_data[n]}
            IN (LET s == SetToSeq(new_components \ old_components) IN [i \in DOMAIN s |-> Added(s[i])])
               \o (LET s == SetToSeq(old_components \ new_components) IN [i \in DOMAIN s |-> Removed(s[i])])
               \o (LET s == SetToSeq(changed) IN [i \in DOMAIN s |-> Modified(s[i])])
    IN Concat((LET s == SetToSeq(common_nodes) IN [i \in DOMAIN s |-> ForNode(s[i])]))

analyze_changes(w, old_tree, new_tree) ==
    analyze_node_changes(w, old_tree, new_tree)
    \o analyze_edge_changes(old_tree, new_tree)
    \o analyze_component_changes(w, old_tree, new_tree)

\* TreeHistoryManager.analyze_changes_between_commits (observer.py 199-214)
\* analyze_changes_between_commits that takes an unknown commit for an empty
\* graph
analyze_changes_between_commits_empty_graph(w, from_commit, to_commit) ==
    LET empty_tree == [root_ecs_id |-> None, lineage_id |-> None,
                       nodes |-> Empty, edges |-> Empty]
        from_tree == get_tree_at_commit(w, from_commit)
        to_tree == get_tree_at_commit(w, to_commit)
    IN analyze_changes(w, IF from_tree = << >> THEN empty_tree ELSE from_tree[1],
                          IF to_tree = << >> THEN empty_tree ELSE to_tree[1])

analyze_changes_between_commits(w, from_commit, to_commit) ==
    LET from_tree == get_tree_at_commit(w, from_commit)
        to_tree == get_tree_at_commit(w, to_commit)
    IN IF from_tree = << >> \/ to_tree = << >> THEN Empty
       ELSE analyze_changes(w, from_tree[1], to_tree[1])

\* TreeChangeObserver.analyze_evolution (observer.py 329-362).  The commit log
\* it reads is one of the lists get_commit_log can return, so the operator
\* gives the set of diffs a call can return.
analyze_evolution(w, r, from_commit, to_commit) ==
    LET commit_ids == get_commits_for_root(w, r)
        from_commits ==
            IF from_commit = None
            THEN {IF snapshots /= Empty THEN snapshots[Len(snapshots)].commit_id ELSE None :
                     snapshots \in get_commit_log(w, r, NoLimit)}
            ELSE {from_commit}
        to == IF to_commit = None THEN w.heads[r] ELSE to_commit
    IN IF Cardinality(commit_ids) < 2 THEN {Empty}
       ELSE {IF from = None \/ to = None THEN Empty
             ELSE analyze_changes_between_commits(w, from, to) : from \in from_commits}

\* the live tree t as a tree object
LiveTree(w, t) ==
    [root_ecs_id |-> root_ecs_id(t), lineage_id |-> lineage_id(t),
     nodes |-> w.nodes[t], edges |-> w.edges[t]]

\* ---- EntityTree queries (entity.py 71-104) ----------------------------------
\* "tree" is a tree object (a live graph or a stored one); the comprehensions
\* walk the dict in its own order, which is some order of its keys.
\* find_entities_with_component that lists every node
find_entities_with_component_every_node(w, tree, component_name) ==
    Out(w, SetToSeq(DOMAIN tree.nodes))

find_entities_with_component(w, tree, component_name) ==
    LET items == SetToSeq(DOMAIN tree.nodes)
    IN Out(w, SelectSeq(items, LAMBDA entity_id :
                  component_name \in DOMAIN EntityData(w, tree.nodes[entity_id])))

\* find_entities_by_relationship that does not look at the edge type
find_entities_by_relationship_any_type(w, tree, source_id, edge_type) ==
    LET items == SetToSeq(DOMAIN tree.edges)
        found == SelectSeq(items, LAMBDA key : key[1] = source_id)
    IN Out(w, [i \in DOMAIN found |-> found[i][2]])

find_entities_by_relationship(w, tree, source_id, edge_type) ==
    LET items == SetToSeq(DOMAIN tree.edges)
        found == SelectSeq(items, LAMBDA key :
                     key[1] = source_id /\ tree.edges[key].edge_type = edge_type)
    IN Out(w, [i \in DOMAIN found |-> found[i][2]])

\* ---- the default graph (entity.py 297-354) ----------------------------------
\* A graph is named by a value of Trees (a graph the client built) or by the
\* name of a graph that get_default_tree built: "d1" is the first, "d2" the
\* second, ...
MadeName(n) == "d" \o ToString(n)
MadeNames(w) == {MadeName(n) : n \in DOMAIN w.made_trees}

\* the tree object a name stands for
TreeObject(w, tree) ==
    IF tree \in Trees THEN LiveTree(w, tree)
    ELSE w.made_trees[CHOOSE n \in DOMAIN w.made_trees : MadeName(n) = tree]

\* Entity(): ecs_id and lineage_id are fresh uuid4 values, data is empty
NewEntity(n) ==
    [ecs_id |-> "u" \o ToString(n), lineage_id |-> "v" \o ToString(n), data |-> Empty]

\* get_default_tree that builds a graph on every call
get_default_tree_always_creates(w) ==
    LET n == Len(w.made_trees) + 1
        root_entity == NewEntity(n)
        tree == [root_ecs_id |-> root_entity.ecs_id,
                 lineage_id |-> root_entity.lineage_id,
                 nodes |-> DictSet(Empty, root_entity.ecs_id,
                                   [ecs_id |-> root_entity.ecs_id, data |-> root_entity.data]),
                 edges |-> Empty]
    IN Out([w EXCEPT !.made_trees = Append(@, tree), !.default_tree = MadeName(n)],
           MadeName(n))

get_default_tree(w) ==
    IF w.default_tree = None
    THEN LET n == Len(w.made_trees) + 1
             root_entity == NewEntity(n)
             tree == [root_ecs_id |-> root_entity.ecs_id,
                      lineage_id |-> root_entity.lineage_id,
                      nodes |-> DictSet(Empty, root_entity.ecs_id,
                                        [ecs_id |-> root_entity.ecs_id,
                                         data |-> root_entity.data]),
                      edges |-> Empty]
         IN Out([w EXCEPT !.made_trees = Append(@, tree), !.default_tree = MadeName(n)],
                MadeName(n))
    ELSE Out(w, w.default_tree)

set_default_tree(w, tree) == Out([w EXCEPT !.default_tree = tree], None)

\* the module-level find_entities_with_component(component_name, tree=None)
module_find_entities_with_component(w, component_name, tree) ==
    LET o == IF tree = None THEN get_default_tree(w) ELSE Out(w, tree)
    IN find_entities_with_component(o.w, TreeObject(o.w, o.val), component_name)

\* the module-level find_entities_by_relationship(source_id, edge_type, tree=None)
module_find_entities_by_relationship(w, source_id, edge_type, tree) ==
    LET o == IF tree = None THEN get_default_tree(w) ELSE Out(w, tree)
    IN find_entities_by_relationship(o.w, TreeObject(o.w, o.val), source_id, edge_type)

\* ---- the calls a client can make ------------------------------------------
\* "in" names the arguments the clients draw from and the bounds of the run
Bounded(in, w) ==
    /\ Len(w.commits) <= in.maxCommits
    /\ \A ob \in Observers : Len(w.calls[ob]) <= in.maxCalls

\* one call: the world becomes the one the method leaves; steps counts the
\* calls that changed something
Apply(in, o) ==
    /\ steps < in.maxSteps
    /\ Bounded(in, o.w)
    /\ nodes' = o.w.nodes
    /\ edges' = o.w.edges
    /\ observers' = o.w.observers
    /\ data' = o.w.data
    /\ tree_ref' = o.w.tree_ref
    /\ auto_commit' = o.w.auto_commit
    /\ pending_events' = o.w.pending_events
    /\ current_trees' = o.w.current_trees
    /\ commits' = o.w.commits
    /\ branches' = o.w.branches
    /\ root_commits' = o.w.root_commits
    /\ heads' = o.w.heads
    /\ lineage_commits' = o.w.lineage_commits
    /\ calls' = o.w.calls
    /\ steps' = IF o.w = World THEN steps ELSE steps + 1
    /\ clock' = o.w.clock
    /\ default_tree' = o.w.default_tree
    /\ made_trees' = o.w.made_trees
    /\ traversal.pc \notin Running
    /\ traversal' = traversal

AddObserver(in) ==
    \E t \in in.trees, ob \in in.observers :
        Apply(in, Out(add_observer(World, t, ob), None))

RemoveObserver(in) ==
    \E t \in in.trees, ob \in in.observers :
        Apply(in, Out(remove_observer(World, t, ob), None))

SetTreeReference(in) ==
    \E e \in in.entities, t \in in.trees :
        Apply(in, Out(set_tree_reference(World, e, t), None))

AddNode(in) ==
    \E t \in in.trees, e \in in.entities : Apply(in, add_node(World, t, e))

RemoveNode(in) ==
    \E t \in in.trees, e \in in.entities : Apply(in, remove_node(World, t, ecs_id(e)))

AddEdge(in) ==
    \E t \in in.trees, edge \in in.edges : Apply(in, add_edge(World, t, edge))

RemoveEdge(in) ==
    \E t \in in.trees, edge \in in.edges :
        Apply(in, remove_edge(World, t, edge.source_id, edge.target_id))

AddComponent(in) ==
    \E e \in in.entities, n \in ComponentNames, v \in in.values :
        Apply(in, add_component(World, e, n, v))

RemoveComponent(in) ==
    \E e \in in.entities, n \in ComponentNames :
        Apply(in, remove_component(World, e, n))

UpdateComponent(in) ==
    \E e \in in.entities, n \in ComponentNames, v \in in.values :
        Apply(in, update_component(World, e, n, v))

\* parent lists of up to in.maxParents ids, known or not
ParentInputs(in, w) ==
    LET ids == CommitKeys(w) \cup {UnknownCommit}
    IN {Empty}
       \cup (IF in.maxParents >= 1 THEN {<<c>> : c \in ids} ELSE {})
       \cup (IF in.maxParents >= 2 THEN {<<c, d>> : c \in ids, d \in ids} ELSE {})

\* history_manager.commit_tree called directly
CommitTree(in) ==
    \E t \in in.trees, p \in ParentInputs(in, World), b \in in.branches :
        Apply(in, commit_tree(World, t, "direct", p, b))

CreateBranch(in) ==
    \E b \in in.branches, c \in CommitKeys(World) \cup {UnknownCommit} :
        Apply(in, create_branch(World, b, c))

RegisterTree(in) ==
    \E t \in in.trees : Apply(in, Out(register_tree(World, t), None))

CommitCurrentState(in) ==
    \E r \in RootIds, b \in in.branches :
        Apply(in, commit_current_state(World, r, "Auto-commit", b))

\* events a client may hand to observer.notify itself: stamped with a root
\* id, or (tree_id None) stamped by no tree
NotifyInputs(in) ==
    {[NodeAddedEvent("n2") EXCEPT !.tree_id = r] : r \in in.roots}

Notify(in) ==
    \E event \in NotifyInputs(in) :
        Apply(in, Out(observer_notify(World, "obs", event), None))

\* a call that asks for the default graph: get_default_tree() itself or a
\* module-level query called without a graph
GetDefaultTree(in) ==
    \E call \in {"get_default_tree", "find_entities_with_component",
                 "find_entities_by_relationship"} :
        LET o == CASE call = "get_default_tree" -> get_default_tree(World)
                   [] call = "find_entities_with_component" ->
                        module_find_entities_with_component(World, "health", None)
                   [] call = "find_entities_by_relationship" ->
                        module_find_entities_by_relationship(World, "r1", "composition", None)
        IN Len(o.w.made_trees) <= in.maxMade /\ Apply(in, o)

SetDefaultTree(in) ==
    \E tree \in in.trees \cup MadeNames(World) \cup {None} :
        Apply(in, set_default_tree(World, tree))

\* the fields of the objects: a running get_common_ancestor writes none
world_vars ==
    <<nodes, edges, observers, data, tree_ref, auto_commit, pending_events,
      current_trees, commits, branches, root_commits, heads, lineage_commits,
      calls, steps, clock, default_tree, made_trees>>

\* get_common_ancestor is called and enters its first _get_ancestors
GetCommonAncestor(in) ==
    \E c1 \in CommitKeys(World) \cup {UnknownCommit},
       c2 \in CommitKeys(World) \cup {UnknownCommit} :
        /\ traversal.pc \notin Running
        /\ traversal' = [Idle EXCEPT !.pc = "ancestors1", !.commit1 = c1,
                                     !.commit2 = c2, !.to_visit = <<c1>>]
        /\ UNCHANGED world_vars

GetAncestorsStep ==
    /\ traversal.pc \in Running
    /\ traversal.to_visit /= Empty
    /\ traversal' = get_ancestors_step(World, traversal)
    /\ UNCHANGED world_vars

GetAncestorsReturn ==
    /\ traversal.pc \in Running
    /\ traversal.to_visit = Empty
    /\ traversal' = get_ancestors_return(traversal)
    /\ UNCHANGED world_vars

\* time passes between two calls: the wall clock shows a later time.  Calls
\* that follow each other within one tick of the clock read the same time.
Tick ==
    /\ clock < MaxClock
    /\ clock' = clock + 1
    /\ UNCHANGED <<nodes, edges, observers, data, tree_ref, auto_commit,
                   pending_events, current_trees, commits, branches,
                   root_commits, heads, lineage_commits, calls, steps,
                   default_tree, made_trees, traversal>>

Step(in) ==
    \/ AddObserver(in)
    \/ RemoveObserver(in)
    \/ SetTreeReference(in)
    \/ AddNode(in)
    \/ RemoveNode(in)
    \/ AddEdge(in)
    \/ RemoveEdge(in)
    \/ AddComponent(in)
    \/ RemoveComponent(in)
    \/ UpdateComponent(in)
    \/ CommitTree(in)
    \/ CreateBranch(in)
    \/ RegisterTree(in)
    \/ CommitCurrentState(in)
    \/ Notify(in)

\* the state after the objects are constructed
Constructed(auto) ==
    /\ nodes = [t \in Trees |-> Empty]
    /\ edges = [t \in Trees |-> Empty]
    /\ observers = [t \in Trees |-> Empty]
    /\ data = [e \in Entities |-> Empty]
    /\ tree_ref = [e \in Entities |-> None]
    /\ auto_commit = auto
    /\ pending_events = [r \in RootIds |-> Empty]
    /\ current_trees = [r \in RootIds |-> None]
    /\ commits = Empty
    /\ branches = [b \in BranchNames |-> None]
    /\ root_commits = [r \in RootIds |-> {}]
    /\ heads = [r \in RootIds |-> None]
    /\ lineage_commits = [l \in LineageIds |-> {}]
    /\ calls = [ob \in Observers |-> Empty]
    /\ steps = 0
    /\ clock = 0
    /\ default_tree = None
    /\ made_trees = Empty
    /\ traversal = Idle

\* ---- specification: commits made by hand, auto_commit off -----------------
Inputs ==
    [trees |-> {"t1", "t2"}, entities |-> {"e1"},
     edges |-> {EntityEdge("r1", "n2", "composition")},
     values |-> {1}, observers |-> {"obs"},
     branches |-> BranchNames, roots |-> RootIds \cup {None}, maxParents |-> 1,
     maxSteps |-> MaxSteps, maxCommits |-> MaxCommits, maxCalls |-> MaxCalls]

Init == Constructed(FALSE)
Next == Step(Inputs)
Spec == Init /\ [][Next]_vars

\* ---- specification: two graph objects with one root id ---------------------
MaxStepsRoots == 4

InputsRoots ==
    [trees |-> {"t1", "t3"}, entities |-> {"e1"},
     edges |-> {EntityEdge("r1", "n2", "composition")},
     values |-> {1}, observers |-> {"obs"},
     branches |-> BranchNames, roots |-> {"r1", None}, maxParents |-> 1,
     maxSteps |-> MaxStepsRoots, maxCommits |-> MaxCommits, maxCalls |-> MaxCalls]

NextRoots == Step(InputsRoots)
SpecRoots == Init /\ [][NextRoots]_vars

\* ---- specification: graphs and entities shared by two observers -----------
MaxStepsGraph == 4

InputsGraph ==
    [trees |-> {"t1", "t2"}, entities |-> {"e1", "e2"},
     edges |-> {EntityEdge("r1", "n2", "composition")},
     values |-> ComponentValues, observers |-> Observers,
     branches |-> {"main"}, roots |-> {"r1", None}, maxParents |-> 0,
     maxSteps |-> MaxStepsGraph, maxCommits |-> MaxCommits, maxCalls |-> MaxCalls]

NextGraph == Step(InputsGraph)
SpecGraph == Init /\ [][NextGraph]_vars

\* ---- specification: one graph, committed between mutations -----------------
MaxStepsDiff == 7
MaxCommitsDiff == 2

InputsDiff ==
    [trees |-> {"t1"}, entities |-> {"e1", "e2"},
     edges |-> {EntityEdge("r1", "n2", "composition")},
     values |-> {1}, observers |-> {"obs"},
     branches |-> {"main"}, roots |-> {"r1"}, maxParents |-> 0,
     maxSteps |-> MaxStepsDiff, maxCommits |-> MaxCommitsDiff, maxCalls |-> MaxCalls]

NextDiff == Step(InputsDiff)
SpecDiff == Init /\ [][NextDiff]_vars

\* ---- specification: an observer with or without auto_commit ----------------
MaxStepsAuto == 12
MaxCommitsAuto == 2
MaxCallsAuto == 11

InputsAuto ==
    [trees |-> {"t1"}, entities |-> {"e1"},
     edges |-> {EntityEdge("r1", "n2", "composition")},
     values |-> {1}, observers |-> {"obs"},
     branches |-> {"main"}, roots |-> {"r1"}, maxParents |-> 0,
     maxSteps |-> MaxStepsAuto, maxCommits |-> MaxCommitsAuto,
     maxCalls |-> MaxCallsAuto]

\* TreeChangeObserver(auto_commit=True) or TreeChangeObserver()
InitAuto == \E auto \in BOOLEAN : Constructed(auto)

NextAuto ==
    \/ AddObserver(InputsAuto)
    \/ AddNode(InputsAuto)
    \/ RemoveNode(InputsAuto)
    \/ RegisterTree(InputsAuto)
    \/ CommitCurrentState(InputsAuto)
    \/ Notify(InputsAuto)

SpecAuto == InitAuto /\ [][NextAuto]_vars

\* ---- specification: component mutations under an auto_commit observer ------
\* TreeChangeObserver.__init__ takes auto_commit and nothing else: the
\* threshold is the literal in _auto_commit_changes whatever the caller wants.
MaxStepsThreshold == 6

InputsThreshold ==
    [trees |-> {"t1"}, entities |-> {"e1"},
     edges |-> {EntityEdge("r1", "n2", "composition")},
     values |-> ComponentValues, observers |-> {"obs"},
     branches |-> {"main"}, roots |-> {"r1"}, maxParents |-> 0,
     maxSteps |-> MaxStepsThreshold, maxCommits |-> MaxCommits,
     maxCalls |-> MaxCalls]

NextThreshold ==
    \/ AddObserver(InputsThreshold)
    \/ RegisterTree(InputsThreshold)
    \/ SetTreeReference(InputsThreshold)
    \/ AddNode(InputsThreshold)
    \/ AddComponent(InputsThreshold)
    \/ RemoveComponent(InputsThreshold)
    \/ UpdateComponent(InputsThreshold)

SpecThreshold == InitAuto /\ [][NextThreshold]_vars

\* ---- specification: a history with branches and merge commits ---------------
MaxStepsHistory == 4

InputsHistory ==
    [trees |-> {"t1"}, entities |-> {"e1"},
     edges |-> {EntityEdge("r1", "n2", "composition")},
     values |-> {1}, observers |-> {"obs"},
     branches |-> BranchNames, roots |-> {"r1"}, maxParents |-> 2,
     maxSteps |-> MaxStepsHistory, maxCommits |-> MaxCommits,
     maxCalls |-> MaxCalls]

NextHistory ==
    \/ AddNode(InputsHistory)
    \/ CommitTree(InputsHistory)
    \/ CreateBranch(InputsHistory)
    \/ RegisterTree(InputsHistory)
    \/ CommitCurrentState(InputsHistory)

SpecHistory == Init /\ [][NextHistory]_vars

\* ---- specification: commits of two roots while the clock runs ---------------
MaxStepsLog == 4

InputsLog ==
    [trees |-> {"t1", "t2"}, entities |-> {"e1"},
     edges |-> {EntityEdge("r1", "n2", "composition")},
     values |-> {1}, observers |-> {"obs"},
     branches |-> {"main"}, roots |-> {"r1"}, maxParents |-> 0,
     maxSteps |-> MaxStepsLog, maxCommits |-> MaxCommits, maxCalls |-> MaxCalls]

NextLog ==
    \/ Tick
    \/ AddNode(InputsLog)
    \/ CommitTree(InputsLog)
    \/ RegisterTree(InputsLog)
    \/ CommitCurrentState(InputsLog)

SpecLog == Init /\ [][NextLog]_vars

\* ---- specification: edges of every shape in two graphs ----------------------
MaxStepsEdges == 3

\* the edges r1 -> n2 of every combination of two values per field, and one
\* edge for each of two more keys
EdgeInputsEdges ==
    {[source_id |-> "r1", target_id |-> "n2", edge_type |-> ty, field_name |-> f,
      container_index |-> ix, container_key |-> k] :
        ty \in {"composition", "list_item"}, f \in {"f", "g"},
        ix \in {NoIndex, <<0>>}, k \in {None, "k"}}
    \cup {EntityEdge("n2", "r1", "composition"), EntityEdge("r1", "r1", "composition")}

InputsEdges ==
    [trees |-> {"t1", "t2"}, entities |-> {"e1", "e2"},
     edges |-> EdgeInputsEdges,
     values |-> {1}, observers |-> {"obs"},
     branches |-> {"main"}, roots |-> {"r1"}, maxParents |-> 0,
     maxSteps |-> MaxStepsEdges, maxCommits |-> MaxCommits, maxCalls |-> MaxCalls]

NextEdges ==
    \/ AddEdge(InputsEdges)
    \/ RemoveEdge(InputsEdges)

SpecEdges == Init /\ [][NextEdges]_vars

\* ---- specification: the default graph ---------------------------------------
MaxStepsDefault == 5
MaxMade == 3

InputsDefault ==
    [trees |-> {"t1"}, entities |-> {"e1", "e2"},
     edges |-> {EntityEdge("r1", "n2", "composition")},
     values |-> {1}, observers |-> {"obs"},
     branches |-> {"main"}, roots |-> {"r1"}, maxParents |-> 0,
     maxSteps |-> MaxStepsDefault, maxCommits |-> MaxCommits, maxCalls |-> MaxCalls,
     maxMade |-> MaxMade]

NextDefault ==
    \/ GetDefaultTree(InputsDefault)
    \/ SetDefaultTree(InputsDefault)
    \/ AddNode(InputsDefault)
    \/ AddEdge(InputsDefault)
    \/ AddComponent(InputsDefault)

SpecDefault == Init /\ [][NextDefault]_vars

\* ---- specification: entities with components in two graphs ------------------
MaxStepsComponents == 6

\* e2 and e3 have the same ecs_id: a node id of both graphs can stand for two
\* different entities
InputsComponents ==
    [trees |-> {"t1", "t2"}, entities |-> {"e1", "e2", "e3"},
     edges |-> {EntityEdge("r1", "n2", "composition")},
     values |-> ComponentValues, observers |-> {"obs"},
     branches |-> {"main"}, roots |-> {"r1"}, maxParents |-> 0,
     maxSteps |-> MaxStepsComponents, maxCommits |-> MaxCommits, maxCalls |-> MaxCalls]

NextComponents ==
    \/ AddNode(InputsComponents)
    \/ AddComponent(InputsComponents)
    \/ RemoveComponent(InputsComponents)
    \/ UpdateComponent(InputsComponents)

SpecComponents == Init /\ [][NextComponents]_vars

\* ---- specification: two roots committed through one observer ----------------
MaxStepsBranches == 5

InputsBranches ==
    [trees |-> {"t1", "t2"}, entities |-> {"e1"},
     edges |-> {EntityEdge("r1", "n2", "composition")},
     values |-> {1}, observers |-> {"obs"},
     branches |-> BranchNames, roots |-> RootIds, maxParents |-> 0,
     maxSteps |-> MaxStepsBranches, maxCommits |-> MaxCommits, maxCalls |-> MaxCalls]

NextBranches ==
    \/ AddNode(InputsBranches)
    \/ RegisterTree(InputsBranches)
    \/ CommitCurrentState(InputsBranches)
    \/ CreateBranch(InputsBranches)

SpecBranches == Init /\ [][NextBranches]_vars

\* ---- specification: one observed, registered graph ---------------------------
MaxStepsTracked == 4

InputsTracked ==
    [trees |-> {"t1"}, entities |-> {"e1", "e2"},
     edges |-> {EntityEdge("r1", "n2", "composition")},
     values |-> ComponentValues, observers |-> {"obs"},
     branches |-> {"main"}, roots |-> {"r1"}, maxParents |-> 0,
     maxSteps |-> MaxStepsTracked, maxCommits |-> MaxCommits, maxCalls |-> MaxCalls]

\* the objects as their constructors leave them, with the given tree_ref
\* fields
ConstructedWorld(refs) ==
    [nodes |-> [t \in Trees |-> Empty], edges |-> [t \in Trees |-> Empty],
     observers |-> [t \in Trees |-> Empty], data |-> [e \in Entities |-> Empty],
     tree_ref |-> refs, auto_commit |-> FALSE,
     pending_events |-> [r \in RootIds |-> Empty],
     current_trees |-> [r \in RootIds |-> None],
     commits |-> Empty, branches |-> [b \in BranchNames |-> None],
     root_commits |-> [r \in RootIds |-> {}], heads |-> [r \in RootIds |-> None],
     lineage_commits |-> [l \in LineageIds |-> {}],
     calls |-> [ob \in Observers |-> Empty],
     clock |-> 0, default_tree |-> None, made_trees |-> Empty]

\* The set-up of the examples: tree.add_observer(observer),
\* observer.register_tree(tree), and set_tree_reference for the entities the
\* client chose to attach (to this graph, to another one, or to none).
InitTracked ==
    \E refs \in [Entities -> {None, "t1", "t2"}] :
        LET w0 == register_tree(add_observer(ConstructedWorld(refs), "t1", "obs"), "t1")
        IN /\ \A e \in Entities \ InputsTracked.entities : refs[e] = None
           /\ nodes = w0.nodes
           /\ edges = w0.edges
           /\ observers = w0.observers
           /\ data = w0.data
           /\ tree_ref = w0.tree_ref
           /\ auto_commit = w0.auto_commit
           /\ pending_events = w0.pending_events
           /\ current_trees = w0.current_trees
           /\ commits = w0.commits
           /\ branches = w0.branches
           /\ root_commits = w0.root_commits
           /\ heads = w0.heads
           /\ lineage_commits = w0.lineage_commits
           /\ calls = w0.calls
           /\ steps = 0
           /\ clock = w0.clock
           /\ default_tree = w0.default_tree
           /\ made_trees = w0.made_trees
           /\ traversal = Idle

NextTracked ==
    \/ AddNode(InputsTracked)
    \/ RemoveNode(InputsTracked)
    \/ AddEdge(InputsTracked)
    \/ RemoveEdge(InputsTracked)
    \/ AddComponent(InputsTracked)
    \/ RemoveComponent(InputsTracked)
    \/ UpdateComponent(InputsTracked)
    \/ CommitCurrentState(InputsTracked)

SpecTracked == InitTracked /\ [][NextTracked]_vars

\* ---- specification: two graphs that differ in nodes, edges and components ---
MaxStepsDual == 7

InputsDual ==
    [trees |-> {"t1", "t2"}, entities |-> {"e1", "e2", "e3"},
     edges |-> {EntityEdge("r1", "n2", "composition"),
                [EntityEdge("r1", "n2", "list_item") EXCEPT !.container_index = <<0>>]},
     values |-> ComponentValues, observers |-> {"obs"},
     branches |-> {"main"}, roots |-> {"r1"}, maxParents |-> 0,
     maxSteps |-> MaxStepsDual, maxCommits |-> MaxCommits, maxCalls |-> MaxCalls]

NextDual ==
    \/ AddNode(InputsDual)
    \/ AddEdge(InputsDual)
    \/ AddComponent(InputsDual)

SpecDual == Init /\ [][NextDual]_vars

\* ---- specification: get_common_ancestor run step by step --------------------
MaxStepsTraversal == 3

InputsTraversal ==
    [trees |-> {"t1"}, entities |-> {"e1"},
     edges |-> {EntityEdge("r1", "n2", "composition")},
     values |-> {1}, observers |-> {"obs"},
     branches |-> {"main"}, roots |-> {"r1"}, maxParents |-> 2,
     maxSteps |-> MaxStepsTraversal, maxCommits |-> MaxCommits, maxCalls |-> MaxCalls]

NextTraversal ==
    \/ CommitTree(InputsTraversal)
    \/ GetCommonAncestor(InputsTraversal)
    \/ GetAncestorsStep
    \/ GetAncestorsReturn

SpecTraversal == Init /\ [][NextTraversal]_vars

\* a call that has begun goes on: nothing else runs in its thread
SpecTraversalFair ==
    SpecTraversal /\ WF_vars(GetAncestorsStep) /\ WF_vars(GetAncestorsReturn)

\* ---- what the claims speak of ----------------------------------------------
\* the node set, component values and edge map of a tree object
TreeContent(w, tree) ==
    [nodes |-> [id \in DOMAIN tree.nodes |-> EntityData(w, tree.nodes[id])],
     edges |-> tree.edges]

\* C1: snapshot isolation.  Once a commit id is stored, no later call (a
\* mutation of a live graph or entity, or another commit) changes the node
\* set, the component values or the edge map of get_tree_at_commit(id).
C1_SnapshotIsolation ==
    [][\A c \in CommitKeys(World) :
          /\ c \in CommitKeys(World')
          /\ TreeContent(World', get_tree_at_commit(World', c)[1])
               = TreeContent(World, get_tree_at_commit(World, c)[1])]_vars

\* a commit whose live graph has been mutated since: the live content of
\* the committed root differs from the snapshot
C1_Witness ==
    \E c \in CommitKeys(World), t \in Trees :
        /\ Snapshot(World, c).tree.root_ecs_id = root_ecs_id(t)
        /\ DOMAIN Snapshot(World, c).tree.nodes /= {}
        /\ TreeContent(World, LiveTree(World, t))
             /= TreeContent(World, Snapshot(World, c).tree)

\* the call left exactly one more event, of the given type and stamped with
\* the root id of tree t, with each observer registered on t, and nothing
\* with any other observer
DeliveredOnce(w, o, t, type) ==
    \A ob \in Observers :
        IF ob \in Range(w.observers[t])
        THEN /\ Len(o.w.calls[ob]) = Len(w.calls[ob]) + 1
             /\ SubSeq(o.w.calls[ob], 1, Len(w.calls[ob])) = w.calls[ob]
             /\ o.w.calls[ob][Len(o.w.calls[ob])].type = type
             /\ o.w.calls[ob][Len(o.w.calls[ob])].tree_id = root_ecs_id(t)
        ELSE o.w.calls[ob] = w.calls[ob]

\* C2: in every reachable state, each successful add_node, remove_node,
\* add_edge, remove_edge, and each successful component mutation of an entity
\* that holds a tree reference, has delivered exactly one event to every
\* observer registered on the tree when the call returns.
C2_OneEventPerObserver ==
    LET w == World IN
    /\ \A t \in Trees, e \in Entities :
          /\ ecs_id(e) \notin DOMAIN w.nodes[t]
                => DeliveredOnce(w, add_node(w, t, e), t, "NodeAdded")
          /\ ecs_id(e) \in DOMAIN w.nodes[t]
                => DeliveredOnce(w, remove_node(w, t, ecs_id(e)), t, "NodeRemoved")
    /\ \A t \in Trees, edge \in EdgeInputs :
          /\ <<edge.source_id, edge.target_id>> \notin DOMAIN w.edges[t]
                => DeliveredOnce(w, add_edge(w, t, edge), t, "EdgeAdded")
          /\ <<edge.source_id, edge.target_id>> \in DOMAIN w.edges[t]
                => DeliveredOnce(w, remove_edge(w, t, edge.source_id, edge.target_id),
                                 t, "EdgeRemoved")
    /\ \A e \in Entities, n \in ComponentNames, v \in ComponentValues :
          w.tree_ref[e] /= None =>
            /\ n \notin DOMAIN w.data[e]
                 => /\ DeliveredOnce(w, add_component(w, e, n, v), w.tree_ref[e],
                                     "ComponentAdded")
                    /\ DeliveredOnce(w, update_component(w, e, n, v), w.tree_ref[e],
                                     "ComponentAdded")
            /\ n \in DOMAIN w.data[e]
                 => /\ DeliveredOnce(w, remove_component(w, e, n), w.tree_ref[e],
                                     "ComponentRemoved")
                    /\ DeliveredOnce(w, update_component(w, e, n, v), w.tree_ref[e],
                                     "ComponentModified")

\* a tree with both observers registered on which a mutation has been made:
\* each observer holds the event
C2_Witness ==
    \E t \in Trees :
        /\ Range(observers[t]) = Observers
        /\ \A ob \in Observers :
              /\ calls[ob] /= Empty
              /\ calls[ob][Len(calls[ob])].tree_id = root_ecs_id(t)

\* the commits of root r, oldest first
CommitsOfRoot(w, r) == SelectSeq(w.commits, LAMBDA s : s.tree.root_ecs_id = r)

\* parent lists a caller may pass: none, one or two ids, known or not
AnyParents(w) ==
    LET ids == CommitKeys(w) \cup {UnknownCommit}
    IN {Empty} \cup {<<c>> : c \in ids} \cup {<<c, UnknownCommit>> : c \in ids}

\* C3: in every reachable state, a call of commit_tree (any tree, parent list
\* and branch) stores exactly one new snapshot under an id that was not a key
\* before, keeps the stored ones, and on return branches[branch] and
\* heads[root] are the new id and the new id is in root_commits[root] and in
\* lineage_commits[lineage]; this includes the states in which the tree
\* equals the snapshot of its head.
C3_CommitAlwaysCreates ==
    LET w == World IN
    \A t \in Trees, p \in AnyParents(w), b \in BranchNames :
        LET o == commit_tree(w, t, "m", p, b) IN
        /\ o.val \notin CommitKeys(w)
        /\ Len(o.w.commits) = Len(w.commits) + 1
        /\ SubSeq(o.w.commits, 1, Len(w.commits)) = w.commits
        /\ o.w.commits[Len(o.w.commits)].commit_id = o.val
        /\ o.w.branches[b] = o.val
        /\ o.w.heads[root_ecs_id(t)] = o.val
        /\ o.val \in o.w.root_commits[root_ecs_id(t)]
        /\ o.val \in o.w.lineage_commits[lineage_id(t)]

\* two commits of one root, the second made on top of the first with the
\* graph unchanged
C3_Witness ==
    \E i, j \in DOMAIN commits :
        /\ i < j
        /\ commits[j].parent_commits = <<commits[i].commit_id>>
        /\ commits[j].tree = commits[i].tree
        /\ DOMAIN commits[i].tree.nodes /= {}

\* C4: every commit id held by branches, heads, root_commits or
\* lineage_commits is a key of commits.
C4_IndexedCommitsExist ==
    /\ \A b \in BranchNames : branches[b] /= None => branches[b] \in CommitKeys(World)
    /\ \A r \in RootIds : heads[r] /= None => heads[r] \in CommitKeys(World)
    /\ \A r \in RootIds : root_commits[r] \subseteq CommitKeys(World)
    /\ \A l \in LineageIds : lineage_commits[l] \subseteq CommitKeys(World)

\* create_branch has acted: two branches name the same stored commit, and
\* a later commit has moved on
C4_Witness ==
    /\ branches["main"] /= None
    /\ branches["dev"] /= None
    /\ \E r \in RootIds : heads[r] \notin {None, branches["main"], branches["dev"]}

\* C5: for every root id with a stored commit, heads[r] is defined and a
\* member of root_commits[r]; root_commits[r] is non-empty exactly when
\* heads[r] is defined.
C5_HeadInRootCommits ==
    \A r \in RootIds :
        /\ CommitsOfRoot(World, r) /= Empty
              => heads[r] /= None /\ heads[r] \in root_commits[r]
        /\ (root_commits[r] /= {}) <=> (heads[r] /= None)

\* one root with two commits and a head, another root with none
C5_Witness ==
    \E r, q \in RootIds :
        /\ Cardinality(root_commits[r]) >= 2
        /\ heads[r] \in root_commits[r]
        /\ root_commits[q] = {} /\ heads[q] = None

\* the events the observer was notified of for root r, in order
NotifiedFor(w, r) == SelectSeq(w.calls["obs"], LAMBDA ev : ev.tree_id = r)

\* the events attached to the commits of root r, oldest commit first
RECURSIVE AttachedEvents(_)
AttachedEvents(snapshots) ==
    IF snapshots = Empty THEN Empty
    ELSE Head(snapshots).events \o AttachedEvents(Tail(snapshots))

\* C7: commit_current_state attaches to the new snapshot exactly the events
\* pending for the root, in order, and leaves the root's buffer empty; and in
\* every reachable state the events of the root's commits, oldest commit
\* first, followed by the pending buffer, are the events notified for the
\* root, each once and in order.
C7_EventConservation ==
    LET w == World IN
    /\ \A r \in RootIds, b \in BranchNames :
          LET o == commit_current_state(w, r, "m", b) IN
          o.val /= None =>
             /\ Snapshot(o.w, o.val).events = w.pending_events[r]
             /\ o.w.pending_events[r] = Empty
    /\ \A r \in RootIds :
          AttachedEvents(CommitsOfRoot(w, r)) \o w.pending_events[r] = NotifiedFor(w, r)

\* a root with events attached to a commit and further events pending
C7_Witness ==
    \E r \in RootIds :
        /\ AttachedEvents(CommitsOfRoot(World, r)) /= Empty
        /\ pending_events[r] /= Empty

\* C8: a commit made by commit_current_state has no parent when the root had
\* no head, and otherwise the one parent heads[r] of before the call; and
\* when no commit of a root was made by calling commit_tree directly (those
\* carry the message "direct" here), the root's commits form one chain in
\* creation order, whatever the branches.
C8_LinearHistory ==
    LET w == World IN
    /\ \A r \in RootIds, b \in BranchNames :
          LET o == commit_current_state(w, r, "m", b) IN
          o.val /= None =>
             Snapshot(o.w, o.val).parent_commits
                = IF w.heads[r] = None THEN Empty ELSE <<w.heads[r]>>
    /\ \A r \in RootIds :
          LET cs == CommitsOfRoot(w, r) IN
          (\A i \in DOMAIN cs : cs[i].message /= "direct") =>
             \A i \in DOMAIN cs :
                cs[i].parent_commits
                   = IF i = 1 THEN Empty ELSE <<cs[i - 1].commit_id>>

\* a root with three commits made through commit_current_state, on two
\* branches
C8_Witness ==
    \E r \in RootIds :
        LET cs == CommitsOfRoot(World, r) IN
        /\ Len(cs) >= 3
        /\ \A i \in DOMAIN cs : cs[i].message /= "direct"
        /\ branches["main"] \in root_commits[r]
        /\ branches["dev"] \in root_commits[r]
        /\ branches["main"] /= branches["dev"]

\* C9: in every reachable state, register_tree(t) records t as the current
\* tree of its root id; if no commit of that root is stored it stores exactly
\* one, with the message "Initial commit" and no parents, and otherwise it
\* stores none (the same or another tree object of the root may be current
\* already); and every root id in current_trees has a stored commit.
C9_RegisterCommitsOnce ==
    LET w == World IN
    /\ \A t \in Trees :
          LET r == root_ecs_id(t)
              w2 == register_tree(w, t)
          IN /\ w2.current_trees[r] = t
             /\ IF CommitsOfRoot(w, r) = Empty
                THEN /\ Len(w2.commits) = Len(w.commits) + 1
                     /\ SubSeq(w2.commits, 1, Len(w.commits)) = w.commits
                     /\ w2.commits[Len(w2.commits)].message = "Initial commit"
                     /\ w2.commits[Len(w2.commits)].parent_commits = Empty
                     /\ w2.commits[Len(w2.commits)].tree.root_ecs_id = r
                ELSE w2.commits = w.commits
    /\ \A r \in RootIds : w.current_trees[r] /= None => CommitsOfRoot(w, r) /= Empty

\* t1 was registered with a node in it, then t3, an empty tree of the same
\* root: one commit, the initial one of t1, and t3 is current
C9_Witness ==
    /\ current_trees["r1"] = "t3"
    /\ nodes["t3"] = Empty
    /\ nodes["t1"] /= Empty
    /\ Len(commits) = 1
    /\ commits[1].message = "Initial commit"
    /\ commits[1].tree.nodes /= Empty

\* ---- C6 ---------------------------------------------------------------------
\* the orders in which the three mutations of the scenario can be made
DiffOrders ==
    {<<1, 2, 3>>, <<1, 3, 2>>, <<2, 1, 3>>, <<2, 3, 1>>, <<3, 1, 2>>, <<3, 2, 1>>}

\* commit1; add a component to P, add node W, add edge P->W (in the given
\* order); commit2; the diff from commit1 to commit2.  The commits are made
\* by the observer (commit_current_state) or by commit_tree directly.
ScenarioDiff(w, t, P, W, name, value, ty, order, viaObserver) ==
    LET Commit(x, msg, parents) ==
            IF viaObserver THEN commit_current_state(x, root_ecs_id(t), msg, "main")
            ELSE commit_tree(x, t, msg, parents, "main")
        c1 == Commit(w, "commit1", Empty)
        Do(x, k) ==
            CASE k = 1 -> add_component(x, P, name, value).w
              [] k = 2 -> add_node(x, t, W).w
              [] k = 3 -> add_edge(x, t, EntityEdge(ecs_id(P), ecs_id(W), ty)).w
        w4 == Do(Do(Do(c1.w, order[1]), order[2]), order[3])
        c2 == Commit(w4, "commit2", <<c1.val>>)
    IN analyze_changes_between_commits(c2.w, c1.val, c2.val)

\* d holds the three records of the scenario and nothing else
ThreeRecords(d, P_id, W_id, name, ty) ==
    /\ Len(d) = 3
    /\ \E i \in DOMAIN d : /\ d[i].change_type = "node_added"
                           /\ d[i].entity_id = W_id
    /\ \E i \in DOMAIN d : /\ d[i].change_type = "component_added"
                           /\ d[i].entity_id = P_id
                           /\ d[i].component_name = name
    /\ \E i \in DOMAIN d : /\ d[i].change_type = "edge_added"
                           /\ d[i].edge_key = <<P_id, W_id>>
                           /\ d[i].details.edge_type = ty
                           /\ d[i].new_value.edge_type = ty

\* C6: from every reachable state in which a graph holds entity P, does not
\* hold W's id nor an edge P->W, and P lacks the component: committing, then
\* adding the component to P, node W and edge P->W in any order, then
\* committing again gives a diff of exactly three records, one node_added for
\* W, one component_added for the component on P, one edge_added for (P, W)
\* with the edge's type; whatever components W carries.
C6_DiffOfScenario ==
    \A t \in InputsDiff.trees, P \in InputsDiff.entities, W \in InputsDiff.entities,
       name \in ComponentNames, value \in InputsDiff.values,
       ty \in {"composition", "association"}, order \in DiffOrders,
       viaObserver \in BOOLEAN :
        ( /\ ecs_id(P) \in DOMAIN nodes[t]
          /\ nodes[t][ecs_id(P)] = Ref(P)
          /\ ecs_id(W) \notin DOMAIN nodes[t]
          /\ <<ecs_id(P), ecs_id(W)>> \notin DOMAIN edges[t]
          /\ name \notin DOMAIN data[P]
          /\ viaObserver => current_trees[root_ecs_id(t)] = t )
        => ThreeRecords(ScenarioDiff(World, t, P, W, name, value, ty, order, viaObserver),
                        ecs_id(P), ecs_id(W), name, ty)

\* two stored commits whose diff is the three records of the scenario, the
\* added node carrying a component of its own
C6_Witness ==
    \E i \in DOMAIN commits, j \in DOMAIN commits :
        /\ i < j
        /\ LET d == analyze_changes_between_commits(World, commits[i].commit_id,
                                                    commits[j].commit_id)
           IN /\ ThreeRecords(d, "r1", "n2", "health", "composition")
              /\ \E k \in DOMAIN d : /\ d[k].change_type = "node_added"
                                     /\ d[k].details.components /= {}

\* ---- C10 --------------------------------------------------------------------
\* the events notify can be called with: made by a mutation of a tree or
\* handed in by a client, stamped with any root id or with none
AnyEvents ==
    {[ev EXCEPT !.tree_id = r] :
        ev \in {NodeAddedEvent("n2"), NodeRemovedEvent("r1"),
                ComponentAddedEvent("r1", "health", 1)},
        r \in RootIds \cup {None}}

\* notify(w, event) made exactly one commit: of the live graph registered for
\* the event's root, carrying the whole buffer, which is left empty
AutoCommitted(w, event) ==
    LET r == event.tree_id
        w2 == notify(w, event)
    IN /\ Len(w2.commits) = Len(w.commits) + 1
       /\ SubSeq(w2.commits, 1, Len(w.commits)) = w.commits
       /\ LET snapshot == w2.commits[Len(w2.commits)]
          IN /\ snapshot.tree = deepcopy(w, w.current_trees[r])
             /\ snapshot.events = Append(w.pending_events[r], event)
             /\ w2.heads[r] = snapshot.commit_id
       /\ w2.pending_events[r] = Empty

\* C10 as stated: with auto_commit on, a notify that brings the buffer of the
\* event's root to the threshold commits and empties the buffer, so that no
\* buffer ever holds as many events as the threshold; with auto_commit off
\* notify creates no commit.
C10_AsStated ==
    /\ \A event \in AnyEvents :
          /\ ( /\ auto_commit
               /\ event.tree_id /= None
               /\ Len(pending_events[event.tree_id]) + 1 >= AutoCommitThreshold )
             => AutoCommitted(World, event)
          /\ ~auto_commit => notify(World, event).commits = commits
    /\ auto_commit => \A r \in RootIds : Len(pending_events[r]) < AutoCommitThreshold

\* C10, amended: with auto_commit on, a notify that brings the buffer of the
\* event's root to the threshold or beyond commits that root's live graph and
\* leaves the buffer empty if a graph is registered for the root, so that the
\* buffer of a registered root is below the threshold when notify returns; for
\* a root nothing is registered for it creates no commit and keeps the event
\* in the buffer.  Below the threshold, and with auto_commit off, notify
\* creates no commit.
C10_AutoCommitWhenRegistered ==
    \A event \in AnyEvents :
        LET r == event.tree_id
            w2 == notify(World, event)
        IN IF r = None THEN w2 = World
           ELSE IF /\ auto_commit
                   /\ Len(pending_events[r]) + 1 >= AutoCommitThreshold
                   /\ current_trees[r] /= None
           THEN /\ AutoCommitted(World, event)
                /\ Len(w2.pending_events[r]) < AutoCommitThreshold
           ELSE /\ w2.commits = commits
                /\ w2.pending_events[r] = Append(pending_events[r], event)

\* an auto-commit has happened: a commit made by notify at the threshold
\* holds the ten events, and the buffer of its root is empty
C10_Witness ==
    /\ auto_commit
    /\ \E i \in DOMAIN commits :
          /\ commits[i].message = "Auto-commit: 10 changes"
          /\ Len(commits[i].events) = AutoCommitThreshold
          /\ pending_events[commits[i].tree.root_ecs_id] = Empty

\* ---- C11 --------------------------------------------------------------------
\* the events are component events
ComponentEvents(events) ==
    \A i \in DOMAIN events :
        events[i].type \in {"ComponentAdded", "ComponentRemoved", "ComponentModified"}

\* C11: an observer built with auto_commit on and asked for a threshold of 3
\* has, after registering a graph (one commit, "Initial commit") and three
\* component mutations of it, made an auto-commit: two commits in all and an
\* empty buffer.
C11_ThresholdOfThree ==
    ( /\ auto_commit
      /\ current_trees["r1"] = "t1"
      /\ Len(commits) >= 1
      /\ commits[1].message = "Initial commit"
      /\ commits[1].events = Empty
      /\ Len(calls["obs"]) = 3
      /\ ComponentEvents(calls["obs"]) )
    => /\ Len(commits) = 2
       /\ pending_events["r1"] = Empty

\* ---- C12, C13 ---------------------------------------------------------------
AnyCommitIds == CommitKeys(World) \cup {UnknownCommit}

\* the ids one parent link away from the ids of S
ParentsOf(w, S) ==
    UNION {Range(Snapshot(w, c).parent_commits) : c \in S \cap CommitKeys(w)}

\* the reflexive-transitive parent closure of id a: a, its parents, their
\* parents, ... (n rounds reach every id there is)
RECURSIVE ClosureUpTo(_, _, _)
ClosureUpTo(w, S, n) ==
    IF n = 0 THEN S ELSE ClosureUpTo(w, S \cup ParentsOf(w, S), n - 1)

ParentClosure(w, a) == ClosureUpTo(w, {a}, Len(w.commits) + 1)

\* every ancestor of c is a stored commit (no parent id is made up)
AllAncestorsStored(w, c) == ParentClosure(w, c) \subseteq CommitKeys(w)

\* C12: for every stored commit c, with or without parents,
\* get_common_ancestor(c, c) returns c, whatever order the set is walked in
\* (stated for the commits all of whose ancestors are stored).
C12_CommonAncestorOfSelf ==
    \A c \in CommitKeys(World) :
        AllAncestorsStored(World, c) => get_common_ancestor(World, c, c) = {c}

\* C13: for all ids a and b, stored or not, every value get_common_ancestor
\* can return lies in both parent closures when these intersect, and the
\* result is absent (None) exactly when they do not intersect.
C13_CommonAncestorInBothClosures ==
    \A a \in AnyCommitIds, b \in AnyCommitIds :
        LET both == ParentClosure(World, a) \cap ParentClosure(World, b)
            results == get_common_ancestor(World, a, b)
        IN /\ both /= {} => results /= {} /\ results \subseteq both
           /\ both = {} <=> None \in results

\* a merge commit on top of two unrelated commits: the closures of the two
\* meet nowhere, those of the merge and its grandparent side meet
C13_Witness ==
    \E a \in CommitKeys(World), b \in CommitKeys(World), m \in CommitKeys(World) :
        /\ get_common_ancestor(World, a, b) = {None}
        /\ Range(Snapshot(World, m).parent_commits) = {a, b}
        /\ get_common_ancestor(World, m, a) = {a}

\* ---- C14 --------------------------------------------------------------------
\* C14: whenever branch "main" points at a commit A and there is no branch
\* "dev": create_branch("dev", A) succeeds, and after commit B made on "dev"
\* with parent list [A], get_common_ancestor(A, B) returns A, "main" still
\* points at A and "dev" points at B; for every A, with or without ancestors
\* (stated for the commits A all of whose ancestors are stored).
C14_BranchPointIsCommonAncestor ==
    \A t \in InputsHistory.trees :
        LET A == branches["main"]
            created == create_branch(World, "dev", A)
            committed == commit_tree(created.w, t, "B", <<A>>, "dev")
            B == committed.val
        IN ( /\ A /= None
             /\ branches["dev"] = None
             /\ AllAncestorsStored(World, A) )
           => /\ created.val = TRUE
              /\ get_common_ancestor(committed.w, A, B) = {A}
              /\ committed.w.branches["main"] = A
              /\ committed.w.branches["dev"] = B

\* ---- C15 --------------------------------------------------------------------
\* C15: create_branch(name, from_commit) returns False and changes nothing
\* when name is already a branch or from_commit is not a stored commit;
\* otherwise it returns True and changes branches[name] to from_commit and
\* nothing else.  So no call changes the head of an existing branch.
C15_CreateBranchContract ==
    \A name \in BranchNames, from_commit \in AnyCommitIds :
        LET o == create_branch(World, name, from_commit)
        IN /\ (branches[name] /= None \/ from_commit \notin CommitKeys(World))
              => o.val = FALSE /\ o.w = World
           /\ (branches[name] = None /\ from_commit \in CommitKeys(World))
              => /\ o.val = TRUE
                 /\ o.w = [World EXCEPT !.branches[name] = from_commit]
           /\ \A b \in BranchNames : branches[b] /= None => o.w.branches[b] = branches[b]

\* "dev" was created from the only commit, made on "main"; creating it again
\* from that commit, or "main" from an unknown id, is refused
C15_Witness ==
    /\ Len(commits) = 1
    /\ branches["main"] = commits[1].commit_id
    /\ branches["dev"] = commits[1].commit_id
    /\ create_branch(World, "dev", commits[1].commit_id).val = FALSE
    /\ create_branch(World, "main", UnknownCommit).val = FALSE

\* ---- C16 --------------------------------------------------------------------
\* where snapshot s stands in a log
PositionIn(log, s) == CHOOSE i \in DOMAIN log : log[i] = s

\* C16: after N commits, get_commit_log() without filter and limit returns
\* the N stored snapshots, each once, with timestamps that never increase
\* along the list; and for two commits of one root, get_commit_log(root)
\* lists the one made later before the one made earlier.
C16_CommitLogNewestFirst ==
    /\ \A log \in get_commit_log(World, None, NoLimit) :
          /\ Len(log) = Len(commits)
          /\ Range(log) = Range(commits)
          /\ \A i \in 1..(Len(log) - 1) : log[i].timestamp >= log[i + 1].timestamp
    /\ \A i \in DOMAIN commits, j \in DOMAIN commits :
          (i < j /\ commits[i].tree.root_ecs_id = commits[j].tree.root_ecs_id)
          => \A log \in get_commit_log(World, commits[i].tree.root_ecs_id, NoLimit) :
                PositionIn(log, commits[j]) < PositionIn(log, commits[i])

Graphs(w) ==
    {LiveTree(w, t) : t \in InputsDiff.trees} \cup {w.commits[i].tree : i \in DOMAIN w.commits}

NodeChangeTypes == {"node_added", "node_removed", "node_modified"}

\* the number of records of d of the given type about the given node
NodeRecords(d, type, id) ==
    Cardinality({i \in DOMAIN d : d[i].change_type = type /\ d[i].entity_id = id})

\* C18: for all graphs G1 and G2 the diff from G1 to G2 holds one node_added
\* record for each id of G2 that G1 lacks, one node_removed record for each id
\* of G1 that G2 lacks, and no other node record; and whatever the order in
\* which the id sets are walked, the same set of node records comes out.
C18_NodeRecordsAreTheSymmetricDifference ==
    \A G1 \in Graphs(World), G2 \in Graphs(World) :
        LET d == analyze_changes(World, G1, G2)
            added == DOMAIN G2.nodes \ DOMAIN G1.nodes
            removed == DOMAIN G1.nodes \ DOMAIN G2.nodes
        IN /\ \A id \in added : NodeRecords(d, "node_added", id) = 1
           /\ \A id \in removed : NodeRecords(d, "node_removed", id) = 1
           /\ \A i \in DOMAIN d :
                 d[i].change_type \in NodeChangeTypes
                 => \/ d[i].change_type = "node_added" /\ d[i].entity_id \in added
                    \/ d[i].change_type = "node_removed" /\ d[i].entity_id \in removed
           /\ \A a1 \in Orderings(added), a2 \in Orderings(added),
                 r1 \in Orderings(removed), r2 \in Orderings(removed) :
                 Range(analyze_node_changes_walk(World, G1, G2, a1, r1))
                 = Range(analyze_node_changes_walk(World, G1, G2, a2, r2))

\* a stored snapshot and the live graph differ by a node on each side, and
\* the diff says so
C18_Witness ==
    \E i \in DOMAIN commits, t \in InputsDiff.trees :
        LET d == analyze_changes(World, commits[i].tree, LiveTree(World, t))
        IN /\ DOMAIN commits[i].tree.nodes = {"r1"}
           /\ DOMAIN nodes[t] = {"n2"}
           /\ NodeRecords(d, "node_added", "n2") = 1
           /\ NodeRecords(d, "node_removed", "r1") = 1

\* ---- C19 --------------------------------------------------------------------
\* C19: add_node of an entity whose id is already a key of nodes, and
\* add_edge of an edge whose (source_id, target_id) is already a key of edges,
\* change nothing: the stored node or edge stays (the argument does not
\* replace it), nodes and edges are as before, no observer is called.
C19_DuplicateAddIsNoOp ==
    \A t \in Trees :
        /\ \A e \in Entities :
              ecs_id(e) \in DOMAIN nodes[t] => add_node(World, t, e).w = World
        /\ \A edge \in EdgeInputs :
              <<edge.source_id, edge.target_id>> \in DOMAIN edges[t]
              => add_edge(World, t, edge).w = World

\* a graph with observers holds node n2 (entity e2) and the composition edge
\* r1 -> n2; adding entity e3 of the same id, or an association edge with
\* the same key, leaves all as it is
C19_Witness ==
    \E t \in Trees :
        /\ observers[t] /= Empty
        /\ "n2" \in DOMAIN nodes[t] /\ nodes[t]["n2"] = Ref("e2")
        /\ <<"r1", "n2">> \in DOMAIN edges[t]
        /\ edges[t][<<"r1", "n2">>].edge_type = "composition"
        /\ add_node(World, t, "e3").w = World
        /\ add_edge(World, t, EntityEdge("r1", "n2", "association")).w = World

\* ---- C20 --------------------------------------------------------------------
\* C20: remove_node of an id that is not a key of nodes, remove_edge of a key
\* that is not in edges, remove_component of a name the entity does not have:
\* each returns None, changes neither graph nor entity, calls no observer.
C20_RemoveOfMissingIsNoOp ==
    /\ \A t \in Trees :
          /\ \A id \in NodeIds :
                id \notin DOMAIN nodes[t]
                => remove_node(World, t, id) = Out(World, << >>)
          /\ \A k \in EdgeKeys :
                k \notin DOMAIN edges[t]
                => remove_edge(World, t, k[1], k[2]) = Out(World, << >>)
    /\ \A e \in Entities, name \in ComponentNames :
          name \notin DOMAIN data[e]
          => remove_component(World, e, name) = Out(World, << >>)

\* an entity attached to a graph that has an observer lacks the component,
\* the graph lacks node n2 and the edge: the three removals find nothing
C20_Witness ==
    \E t \in Trees, e \in Entities :
        /\ observers[t] /= Empty
        /\ tree_ref[e] = t
        /\ "health" \notin DOMAIN data[e]
        /\ calls["obs"] /= Empty
        /\ "n2" \notin DOMAIN nodes[t]
        /\ remove_component(World, e, "health") = Out(World, << >>)
        /\ remove_node(World, t, "n2") = Out(World, << >>)
        /\ remove_edge(World, t, "r1", "n2") = Out(World, << >>)

\* ---- C21 --------------------------------------------------------------------
\* C21: add_component, remove_component and update_component on an entity
\* whose tree_ref is None change the entity's data as they do for any entity,
\* and nothing else: no observer is called, no buffer changes, also when the
\* entity is a node of a graph that has observers.
C21_NoTreeRefNoEvent ==
    \A e \in Entities, name \in ComponentNames, value \in ComponentValues :
        tree_ref[e] = None
        => /\ add_component(World, e, name, value).w
              = [World EXCEPT !.data[e] = IF name \in DOMAIN data[e] THEN @
                                          ELSE DictSet(@, name, value)]
           /\ remove_component(World, e, name).w
              = [World EXCEPT !.data[e] = DictPop(@, name)]
           /\ update_component(World, e, name, value).w
              = [World EXCEPT !.data[e] = DictSet(@, name, value)]

\* an entity without tree_ref is a node of a graph the observer watches and
\* has got a component; the observer heard of the node only
C21_Witness ==
    \E t \in Trees, e \in Entities :
        /\ tree_ref[e] = None
        /\ "obs" \in Range(observers[t])
        /\ ecs_id(e) \in DOMAIN nodes[t] /\ nodes[t][ecs_id(e)] = Ref(e)
        /\ "health" \in DOMAIN data[e]
        /\ calls["obs"] = <<[NodeAddedEvent(ecs_id(e)) EXCEPT !.tree_id = root_ecs_id(t)]>>
        /\ pending_events[root_ecs_id(t)] = calls["obs"]

\* ---- C22 --------------------------------------------------------------------
\* o is what a component call on entity e, attached to graph t, left: every
\* observer of t was called once more, with event stamped by t, no other
\* observer was called
OneMoreCall(o, t, event) ==
    \A ob \in Observers :
        o.w.calls[ob] = IF ob \in Range(observers[t])
                        THEN Append(calls[ob], [event EXCEPT !.tree_id = root_ecs_id(t)])
                        ELSE calls[ob]

\* C22: update_component(name, value) on an entity attached to a graph stores
\* value under name; if name was absent the graph's observers get one
\* ComponentAdded event, if it was present one ComponentModified event with
\* the previous value as old_value and value as new_value.
C22_UpdateComponent ==
    \A e \in Entities, name \in ComponentNames, value \in ComponentValues :
        LET t == tree_ref[e]
            o == update_component(World, e, name, value)
        IN t /= None
           => /\ o.w.data = [data EXCEPT ![e] = DictSet(@, name, value)]
              /\ o.w.data[e][name] = value
              /\ IF name \in DOMAIN data[e]
                 THEN OneMoreCall(o, t, ComponentModifiedEvent(ecs_id(e), name,
                                                               data[e][name], value))
                 ELSE OneMoreCall(o, t, ComponentAddedEvent(ecs_id(e), name, value))

\* the observer of the entity's graph was told of a change from 1 to 2
C22_Witness ==
    \E e \in Entities :
        /\ tree_ref[e] /= None
        /\ "health" \in DOMAIN data[e] /\ data[e]["health"] = 2
        /\ \E i \in DOMAIN calls["obs"] :
              calls["obs"][i] = [ComponentModifiedEvent(ecs_id(e), "health", 1, 2)
                                    EXCEPT !.tree_id = root_ecs_id(tree_ref[e])]

\* ---- C23 --------------------------------------------------------------------
\* C23: commit_current_state for a root no graph was registered for returns
\* None and changes nothing: no commit, branches and heads as before, the
\* pending events of that root still in the buffer.
C23_CommitOfUnregisteredRoot ==
    \A r \in RootIds, branch \in BranchNames :
        current_trees[r] = None
        => commit_current_state(World, r, "Auto-commit", branch) = Out(World, None)

\* the root has pending events and even a commit (made by commit_tree), but
\* no registered graph: commit_current_state gives None and leaves all as is
C23_Witness ==
    \E r \in RootIds :
        /\ current_trees[r] = None
        /\ pending_events[r] /= Empty
        /\ root_commits[r] /= {}
        /\ commit_current_state(World, r, "Auto-commit", "main") = Out(World, None)

\* ---- C24 --------------------------------------------------------------------
\* C24: analyze_changes_between_commits(a, b) is the empty list when a or b
\* is not a stored commit id and otherwise the analyzer's diff of the graphs
\* of the two stored snapshots; get_tree_at_commit of an id that is not
\* stored is None.  (Both only read the history: they return a value.)
C24_DiffBetweenCommits ==
    \A a \in AnyCommitIds, b \in AnyCommitIds :
        /\ (a \notin CommitKeys(World) \/ b \notin CommitKeys(World))
           => analyze_changes_between_commits(World, a, b) = Empty
        /\ (a \in CommitKeys(World) /\ b \in CommitKeys(World))
           => analyze_changes_between_commits(World, a, b)
              = analyze_changes(World, Snapshot(World, a).tree, Snapshot(World, b).tree)
        /\ a \notin CommitKeys(World) => get_tree_at_commit(World, a) = << >>
        /\ a \in CommitKeys(World)
           => get_tree_at_commit(World, a) = <<Snapshot(World, a).tree>>

\* two stored commits differ, and the diff of either with an unknown id is
\* empty all the same
C24_Witness ==
    \E a \in CommitKeys(World), b \in CommitKeys(World) :
        /\ analyze_changes_between_commits(World, a, b) /= Empty
        /\ Snapshot(World, b).tree.nodes /= Empty
        /\ analyze_changes_between_commits(World, UnknownCommit, b) = Empty
        /\ analyze_changes_between_commits(World, b, UnknownCommit) = Empty

\* ---- C25 --------------------------------------------------------------------
\* C25: get_common_ancestor returns None whenever one of its arguments is not
\* a stored commit id, and whatever else it returns is a key of commits.
C25_UnknownIdGivesNone ==
    \A a \in AnyCommitIds, b \in AnyCommitIds :
        LET results == get_common_ancestor(World, a, b)
        IN /\ (a \notin CommitKeys(World) \/ b \notin CommitKeys(World))
              => results = {None}
           /\ results \ {None} \subseteq CommitKeys(World)

\* ---- C26 --------------------------------------------------------------------
\* C26: whatever tree_id an event holds when a graph hands it to its
\* observers, each observer receives it with tree_id = the graph's root id;
\* every event in the buffer kept under root r, and every event attached to
\* a commit of root r, has tree_id = r.
C26_EventsCarryTheRootId ==
    /\ \A t \in Trees, event \in AnyEvents :
          LET w2 == notify_observers(World, t, event)
          IN \A ob \in Observers :
                w2.calls[ob] = IF ob \in Range(observers[t])
                               THEN Append(calls[ob], [event EXCEPT !.tree_id = root_ecs_id(t)])
                               ELSE calls[ob]
    /\ \A r \in RootIds : \A i \in DOMAIN pending_events[r] :
          pending_events[r][i].tree_id = r
    /\ \A i \in DOMAIN commits : \A k \in DOMAIN commits[i].events :
          commits[i].events[k].tree_id = commits[i].tree.root_ecs_id

\* a commit of root r2 carries an event that graph t2 emitted
C26_Witness ==
    \E i \in DOMAIN commits :
        /\ commits[i].tree.root_ecs_id = "r2"
        /\ \E k \in DOMAIN commits[i].events :
              /\ commits[i].events[k].type = "NodeAdded"
              /\ commits[i].events[k].entity_id = "r1"
              /\ commits[i].events[k].tree_id = "r2"

\* ---- C27 --------------------------------------------------------------------
QueryNames == ComponentNames \cup {"mana"}

\* C27: for every live graph and every stored one, find_entities_with_component
\* (name) lists the ids of the nodes whose component map has the name, each
\* id once (so the empty list when there is none), and leaves everything as
\* it was.
C27_FindEntitiesWithComponent ==
    \A tree \in {LiveTree(World, t) : t \in Trees}
                \cup {commits[i].tree : i \in DOMAIN commits},
       name \in QueryNames :
        LET o == find_entities_with_component(World, tree, name)
            having == {id \in DOMAIN tree.nodes :
                          name \in DOMAIN EntityData(World, tree.nodes[id])}
        IN /\ Range(o.val) = having
           /\ Len(o.val) = Cardinality(having)
           /\ o.w = World

\* a graph of two nodes of which one has the component, and an empty graph
C27_Witness ==
    /\ DOMAIN nodes["t1"] = {"r1", "n2"}
    /\ find_entities_with_component(World, LiveTree(World, "t1"), "health").val = <<"n2">>
    /\ find_entities_with_component(World, LiveTree(World, "t1"), "mana").val = Empty
    /\ nodes["t2"] = Empty
    /\ find_entities_with_component(World, LiveTree(World, "t2"), "health").val = Empty

\* ---- C28 --------------------------------------------------------------------
EdgeTypes == {"composition", "list_item", "association"}

\* C28: find_entities_by_relationship(source_id, edge_type) lists the target
\* ids of the edges whose key starts with source_id and whose edge_type is
\* edge_type, each once (so the empty list when there is none).
C28_FindEntitiesByRelationship ==
    \A t \in Trees, source_id \in NodeIds, edge_type \in EdgeTypes :
        LET tree == LiveTree(World, t)
            o == find_entities_by_relationship(World, tree, source_id, edge_type)
            targets == {key[2] : key \in {k \in DOMAIN tree.edges :
                                             /\ k[1] = source_id
                                             /\ tree.edges[k].edge_type = edge_type}}
        IN /\ Range(o.val) = targets
           /\ Len(o.val) = Cardinality(targets)
           /\ o.w = World

\* r1 has a list_item edge to n2 and a composition edge to itself; n2 has no
\* outgoing edge
C28_Witness ==
    LET tree == LiveTree(World, "t1")
    IN /\ DOMAIN edges["t1"] = {<<"r1", "n2">>, <<"r1", "r1">>}
       /\ find_entities_by_relationship(World, tree, "r1", "list_item").val = <<"n2">>
       /\ find_entities_by_relationship(World, tree, "r1", "composition").val = <<"r1">>
       /\ find_entities_by_relationship(World, tree, "n2", "composition").val = Empty

\* ---- C30 --------------------------------------------------------------------
EdgeChangeTypes == {"edge_added", "edge_removed", "edge_modified"}

\* the records of diff d of the given type about the given edge key
EdgeRecords(d, type, key) ==
    {i \in DOMAIN d : /\ d[i].change_type \in EdgeChangeTypes
                      /\ d[i].change_type = type
                      /\ d[i].edge_key = key}

\* the fields in which two edges differ
DifferingFields(old_edge, new_edge) == {f \in EdgeFields : old_edge[f] /= new_edge[f]}

\* C30: in the diff from one graph to another, a key of both graphs has one
\* edge_modified record if the two edges differ in edge_type, field_name,
\* container_index or container_key and none otherwise, and the record's
\* detail map has exactly the differing fields as keys, each with its old and
\* new value; a key of the new graph only has exactly one edge_added record
\* and a key of the old graph only exactly one edge_removed record.
C30_EdgeRecords ==
    \A t1 \in Trees, t2 \in Trees :
        LET old == LiveTree(World, t1)
            new == LiveTree(World, t2)
            d == analyze_changes(World, old, new)
            Count(type, key) == Cardinality(EdgeRecords(d, type, key))
        IN /\ \A key \in DOMAIN old.edges \cap DOMAIN new.edges :
                LET differing == DifferingFields(old.edges[key], new.edges[key])
                IN /\ Count("edge_modified", key) = IF differing /= {} THEN 1 ELSE 0
                   /\ \A i \in EdgeRecords(d, "edge_modified", key) :
                         /\ DOMAIN d[i].details = differing
                         /\ \A f \in differing :
                               d[i].details[f] = [old |-> old.edges[key][f],
                                                  new |-> new.edges[key][f]]
                   /\ Count("edge_added", key) = 0
                   /\ Count("edge_removed", key) = 0
           /\ \A key \in DOMAIN new.edges \ DOMAIN old.edges :
                /\ Count("edge_added", key) = 1
                /\ Count("edge_removed", key) = 0
                /\ Count("edge_modified", key) = 0
           /\ \A key \in DOMAIN old.edges \ DOMAIN new.edges :
                /\ Count("edge_removed", key) = 1
                /\ Count("edge_added", key) = 0
                /\ Count("edge_modified", key) = 0

\* both graphs have the edge r1 -> n2, differing in edge_type and
\* container_key only, and the new graph alone has r1 -> r1
C30_Witness ==
    LET d == analyze_changes(World, LiveTree(World, "t1"), LiveTree(World, "t2"))
    IN /\ DOMAIN edges["t1"] = {<<"r1", "n2">>}
       /\ DOMAIN edges["t2"] = {<<"r1", "n2">>, <<"r1", "r1">>}
       /\ \E i \in EdgeRecords(d, "edge_modified", <<"r1", "n2">>) :
             DOMAIN d[i].details = {"edge_type", "container_key"}
       /\ EdgeRecords(d, "edge_added", <<"r1", "r1">>) /= {}

\* ---- C29 --------------------------------------------------------------------
\* the graphs a client can name
KnownTrees(w) == InputsDefault.trees \cup MadeNames(w)

\* tree is a graph that did not exist in w and holds its root and nothing else
FreshOneNodeGraph(w, o) ==
    /\ o.val \notin Trees \cup MadeNames(w)
    /\ o.val \in MadeNames(o.w)
    /\ DOMAIN TreeObject(o.w, o.val).nodes = {TreeObject(o.w, o.val).root_ecs_id}
    /\ TreeObject(o.w, o.val).edges = Empty
    /\ o.w.default_tree = o.val
    /\ \A old \in MadeNames(w) : TreeObject(o.w, old) = TreeObject(w, old)

\* C29: get_default_tree builds a graph of one node, its root, when no
\* default is set and returns that graph again on the next call; when a
\* default is set it returns it and changes nothing; after
\* set_default_tree(t) it returns t; after set_default_tree(None) it builds a
\* new one-node graph.  The module-level queries given a graph return what
\* the graph's own query returns, whatever the default graph is, and change
\* nothing.
C29_DefaultGraph ==
    /\ LET o == get_default_tree(World)
       IN /\ default_tree = None => FreshOneNodeGraph(World, o)
          /\ default_tree /= None => o = Out(World, default_tree)
          /\ get_default_tree(o.w) = Out(o.w, o.val)
    /\ \A t \in KnownTrees(World) :
          LET w1 == set_default_tree(World, t).w
          IN /\ w1 = [World EXCEPT !.default_tree = t]
             /\ get_default_tree(w1) = Out(w1, t)
    /\ LET w1 == set_default_tree(World, None).w
       IN /\ w1 = [World EXCEPT !.default_tree = None]
          /\ FreshOneNodeGraph(w1, get_default_tree(w1))
    /\ \A t \in KnownTrees(World), d \in KnownTrees(World) \cup {None} :
          LET w1 == set_default_tree(World, d).w
          IN /\ \A name \in QueryNames :
                   module_find_entities_with_component(w1, name, t)
                   = find_entities_with_component(w1, TreeObject(World, t), name)
             /\ \A source_id \in NodeIds, edge_type \in EdgeTypes :
                   module_find_entities_by_relationship(w1, source_id, edge_type, t)
                   = find_entities_by_relationship(w1, TreeObject(World, t),
                                                   source_id, edge_type)

\* a default graph was built, the default was reset, a second graph was built
\* and a client graph with a node was made the default
C29_Witness ==
    /\ Len(made_trees) = 2
    /\ default_tree = "t1"
    /\ nodes["t1"] /= Empty

\* ---- C31 --------------------------------------------------------------------
ComponentChangeTypes == {"component_added", "component_removed", "component_modified"}

\* the number of records of diff d of the given type about the given
\* component of the given node
ComponentRecords(d, type, id, name) ==
    Cardinality({i \in DOMAIN d : /\ d[i].change_type \in ComponentChangeTypes
                                  /\ d[i].change_type = type
                                  /\ d[i].entity_id = id
                                  /\ d[i].component_name = name})

\* C31: in the diff from one graph to another every component record is
\* about a node id of both graphs; for such a node a component name of the
\* new entity only has one component_added record, a name of the old entity
\* only one component_removed record, a name of both one component_modified
\* record if the two values are unequal and none if they are equal, and there
\* is no other component record.
C31_ComponentRecords ==
    \A t1 \in Trees, t2 \in Trees :
        LET old == LiveTree(World, t1)
            new == LiveTree(World, t2)
            d == analyze_changes(World, old, new)
            common == DOMAIN old.nodes \cap DOMAIN new.nodes
        IN /\ \A i \in DOMAIN d :
                 d[i].change_type \in ComponentChangeTypes => d[i].entity_id \in common
           /\ \A id \in common, name \in ComponentNames :
                 LET old_data == EntityData(World, old.nodes[id])
                     new_data == EntityData(World, new.nodes[id])
                     in_old == name \in DOMAIN old_data
                     in_new == name \in DOMAIN new_data
                 IN /\ ComponentRecords(d, "component_added", id, name)
                       = IF in_new /\ ~in_old THEN 1 ELSE 0
                    /\ ComponentRecords(d, "component_removed", id, name)
                       = IF in_old /\ ~in_new THEN 1 ELSE 0
                    /\ ComponentRecords(d, "component_modified", id, name)
                       = IF in_old /\ in_new /\ old_data[name] /= new_data[name]
                         THEN 1 ELSE 0

\* node n2 is in both graphs with unequal values of health, node r1 is in the
\* old graph only and has health too: one record, about n2
C31_Witness ==
    LET d == analyze_changes(World, LiveTree(World, "t1"), LiveTree(World, "t2"))
    IN /\ DOMAIN nodes["t1"] = {"r1", "n2"}
       /\ DOMAIN nodes["t2"] = {"n2"}
       /\ "health" \in DOMAIN EntityData(World, nodes["t1"]["r1"])
       /\ ComponentRecords(d, "component_modified", "n2", "health") = 1
       /\ \A i \in DOMAIN d : d[i].change_type \in ComponentChangeTypes
                              => d[i].entity_id = "n2"

\* ---- C32 --------------------------------------------------------------------
\* the commits of root r in the order they were made
CommitsOfRootInOrder(w, r) ==
    SelectSeq([i \in DOMAIN w.commits |-> w.commits[i].commit_id],
              LAMBDA cid : cid \in w.root_commits[r])

LimitInputs == 0..(MaxCommits + 1)

\* C33: get_commit_log(root, None) holds the snapshots of the ids of
\* root_commits[root], each once, and nothing else (so it is empty for a root
\* without commits); get_commit_log(root, L) with L >= 0 is the first
\* min(L, n) elements of such a log of n snapshots, for L = 0 too.
C33_CommitLogOfRoot ==
    \A r \in RootIds :
        /\ \A full \in get_commit_log(World, r, NoLimit) :
              /\ {full[i].commit_id : i \in DOMAIN full} = root_commits[r]
              /\ Len(full) = Cardinality(root_commits[r])
              /\ \A i \in DOMAIN full : full[i] = Snapshot(World, full[i].commit_id)
        /\ \A L \in LimitInputs :
              \A result \in get_commit_log(World, r, <<L>>) :
                  \E full \in get_commit_log(World, r, NoLimit) :
                      result = SubSeq(full, 1, Min(L, Len(full)))

\* ---- C34 --------------------------------------------------------------------
\* what the observer and the history hold about root r, and the live graphs
\* of that root, are in w2 what they are in w
SameForRoot(w, w2, r) ==
    /\ w2.pending_events[r] = w.pending_events[r]
    /\ w2.heads[r] = w.heads[r]
    /\ w2.root_commits[r] = w.root_commits[r]
    /\ w2.current_trees[r] = w.current_trees[r]
    /\ CommitsOfRoot(w2, r) = CommitsOfRoot(w, r)
    /\ \A t \in Trees : root_ecs_id(t) = r
                        => TreeContent(w2, LiveTree(w2, t)) = TreeContent(w, LiveTree(w, t))

\* C34: notify of an event of root r1 and commit_current_state(r1) leave the
\* pending buffer, the head, the root_commits set, the live graph and the
\* stored snapshots of every other root r2 as they were.
C34_OtherRootsUntouched ==
    \A r1 \in RootIds, r2 \in RootIds :
        r1 /= r2 =>
            /\ \A event \in AnyEvents :
                  event.tree_id = r1 => SameForRoot(World, notify(World, event), r2)
            /\ \A b \in BranchNames :
                  SameForRoot(World, commit_current_state(World, r1, "Auto-commit", b).w, r2)

\* two registered roots, each with a commit and a pending event; a commit of
\* r1 is about to take r1's event and leave r2's
C34_Witness ==
    LET w2 == commit_current_state(World, "r1", "Auto-commit", "main").w
    IN /\ current_trees["r1"] /= None /\ current_trees["r2"] /= None
       /\ pending_events["r1"] /= Empty /\ pending_events["r2"] /= Empty
       /\ root_commits["r2"] /= {}
       /\ w2.pending_events["r1"] = Empty
       /\ Len(w2.commits) = Len(commits) + 1
       /\ w2.pending_events["r2"] = pending_events["r2"]

\* ---- C35 --------------------------------------------------------------------
\* C35: whenever commit_current_state makes a commit c on a branch that has a
\* head h already, h is c or is reached from c by following parent_commits,
\* whichever root the commit is for.
C35_BranchesFastForward ==
    \A r \in RootIds, b \in BranchNames :
        LET o == commit_current_state(World, r, "Auto-commit", b)
        IN (o.val /= None /\ branches[b] /= None)
           => branches[b] \in ParentClosure(o.w, o.val)

\* ---- C36 --------------------------------------------------------------------
\* the commits that have a parent and no event
QuietCommits(w) ==
    {i \in DOMAIN w.commits : /\ w.commits[i].parent_commits /= Empty
                              /\ w.commits[i].events = Empty}

\* the diff between the parent of the i-th commit and that commit
DiffFromParent(w, i) ==
    analyze_changes_between_commits(w, w.commits[i].parent_commits[1],
                                    w.commits[i].commit_id)

C37_RemoveNodeKeepsEdges ==
    \A t \in Trees :
        /\ \A id \in DOMAIN nodes[t] :
              LET o == remove_node(World, t, id)
              IN /\ o.w.edges = edges
                 /\ o.w.nodes = [nodes EXCEPT ![t] = DictPop(@, id)]
                 /\ o.w.data = data
                 /\ o.val = <<nodes[t][id]>>
                 /\ DeliveredOnce(World, o, t, "NodeRemoved")
        /\ \A edge \in EdgeInputs :
              LET key == <<edge.source_id, edge.target_id>>
                  o == add_edge(World, t, edge)
              IN key \notin DOMAIN edges[t]
                 => /\ o.w.edges = [edges EXCEPT ![t] = DictSet(@, key, edge)]
                    /\ o.w.nodes = nodes
                    /\ DeliveredOnce(World, o, t, "EdgeAdded")

\* an observed graph was given the edge r1 -> n2 while r1 was no node of it,
\* and then lost node n2: the edge is still there
C37_Witness ==
    \E t \in Trees :
        /\ nodes[t] = Empty
        /\ <<"r1", "n2">> \in DOMAIN edges[t]
        /\ Len(calls["obs"]) = 3
        /\ calls["obs"][1].type = "NodeAdded"
        /\ calls["obs"][2].type = "EdgeAdded"
        /\ calls["obs"][3].type = "NodeRemoved" /\ calls["obs"][3].entity_id = "n2"

\* ---- C38 --------------------------------------------------------------------
MirrorType(type) ==
    CASE type = "node_added" -> "node_removed"
      [] type = "node_removed" -> "node_added"
      [] type = "edge_added" -> "edge_removed"
      [] type = "edge_removed" -> "edge_added"
      [] type = "component_added" -> "component_removed"
      [] type = "component_removed" -> "component_added"
      [] OTHER -> type

MirrorField(f) ==
    IF f = "old_value" THEN "new_value" ELSE IF f = "new_value" THEN "old_value" ELSE f

\* the record of the opposite diff that stands for the same change: added
\* for removed and back, old values for new ones and back
Mirror(rec) ==
    [f \in {MirrorField(g) : g \in DOMAIN rec} |->
        IF f = "change_type" THEN MirrorType(rec.change_type)
        ELSE IF f = "details" /\ rec.change_type = "edge_modified"
        THEN [g \in DOMAIN rec.details |->
                 [old |-> rec.details[g].new, new |-> rec.details[g].old]]
        ELSE rec[MirrorField(f)]]

\* C38: for all graphs G1 and G2 the records of the diff from G2 to G1 are
\* the mirrors of the records of the diff from G1 to G2 (an added record for
\* a removed one about the same id, key or component, a modified record for
\* a modified one with old and new values swapped), and the two diffs have
\* the same number of records.
C38_DiffDuality ==
    \A t1 \in Trees, t2 \in Trees :
        LET G1 == LiveTree(World, t1)
            G2 == LiveTree(World, t2)
            d12 == analyze_changes(World, G1, G2)
            d21 == analyze_changes(World, G2, G1)
        IN /\ Len(d12) = Len(d21)
           /\ {Mirror(d12[i]) : i \in DOMAIN d12} = Range(d21)
           /\ Cardinality(Range(d21)) = Len(d21)

\* the second graph has a node more, and the edge r1 -> n2 and the component
\* health of node n2 differ between the two graphs
C38_Witness ==
    LET d == analyze_changes(World, LiveTree(World, "t1"), LiveTree(World, "t2"))
        types == {d[i].change_type : i \in DOMAIN d}
    IN types = {"node_added", "edge_modified", "component_modified"}

\* ---- C39 --------------------------------------------------------------------
\* C39: add_component(name, value) on an entity that has a component of that
\* name changes nothing: the stored value stays, whatever value is, and no
\* observer is called; on an entity without it the value is stored and, when
\* the entity refers to a graph, each observer of that graph gets one
\* ComponentAdded event with the entity's id, the name and the value; without
\* a reference no observer is called.
C39_AddComponentKeepsExisting ==
    \A e \in Entities, name \in ComponentNames, value \in ComponentValues :
        LET o == add_component(World, e, name, value)
        IN IF name \in DOMAIN data[e]
           THEN o = Out(World, None)
           ELSE /\ o.w.data = [data EXCEPT ![e] = DictSet(@, name, value)]
                /\ o.w.nodes = nodes /\ o.w.edges = edges
                /\ IF tree_ref[e] = None THEN o.w.calls = calls
                   ELSE /\ DeliveredOnce(World, o, tree_ref[e], "ComponentAdded")
                        /\ \A ob \in Range(observers[tree_ref[e]]) :
                              LET event == o.w.calls[ob][Len(o.w.calls[ob])]
                              IN /\ event.entity_id = ecs_id(e)
                                 /\ event.component_name = name
                                 /\ event.component_value = value

\* an entity that refers to an observed graph was given health = 1, which the
\* observer was told once; adding health = 2 changes nothing
C39_Witness ==
    \E e \in Entities :
        /\ tree_ref[e] /= None
        /\ "obs" \in Range(observers[tree_ref[e]])
        /\ data[e] = DictSet(Empty, "health", 1)
        /\ Len(calls["obs"]) = 1
        /\ calls["obs"][1].type = "ComponentAdded"
        /\ add_component(World, e, "health", 2) = Out(World, None)

\* ---- C40 --------------------------------------------------------------------
NoDuplicates(s) == \A i \in DOMAIN s, j \in DOMAIN s : s[i] = s[j] => i = j

\* what holds at every moment of a call: no commit has had its parents
\* pushed twice in one traversal, and a call that has returned has the
\* result of get_common_ancestor
TraversalSafe ==
    /\ NoDuplicates(traversal.expanded)
    /\ traversal.pc = "ancestors2"
       => traversal.ancestors1 = get_ancestors(World, traversal.commit1)
    /\ traversal.pc = "done"
       => traversal.result
          = get_common_ancestor(World, traversal.commit1, traversal.commit2)

\* C40: every call of get_common_ancestor returns, whatever the two ids are
\* and whatever parent lists the stored commits have (unknown ids, one id
\* twice, parents that share ancestors), and in each of its two traversals
\* every commit is expanded at most once.
C40_CommonAncestorTerminates ==
    /\ []TraversalSafe
    /\ (traversal.pc = "ancestors1") ~> (traversal.pc = "done")

\* a call has returned for a commit with two parents of which one is the
\* parent of the other, in a history that has a parent list with an unknown
\* id and one with the same id twice
C40_Witness ==
    /\ traversal.pc = "done"
    /\ traversal.commit1 \in CommitKeys(World)
    /\ LET parents == Snapshot(World, traversal.commit1).parent_commits
       IN /\ Len(parents) = 2 /\ parents[1] /= parents[2]
          /\ parents[2] \in CommitKeys(World) /\ parents[1] \in CommitKeys(World)
          /\ parents[2] \in Range(Snapshot(World, parents[1]).parent_commits)
    /\ \E i \in DOMAIN commits : UnknownCommit \in Range(commits[i].parent_commits)
    /\ \E i \in DOMAIN commits :
          /\ Len(commits[i].parent_commits) = 2
          /\ commits[i].parent_commits[1] = commits[i].parent_commits[2]

====
